---------------------------- MODULE Spec2Model ----------------------------
(***************************************************************************)
(* A model of the AgentCP C++ SDK core (agentcp_c++_sdk/core):             *)
(*   - group/cursor_store.cpp      LocalCursorStore                        *)
(*   - group/group_client.cpp      ACPGroupClient                          *)
(*   - group/group_operations.cpp  GroupOperations (SyncGroup)             *)
(*   - client/message_client.cpp   MessageClient                           *)
(* Each component has its own variables and its own specification; a       *)
(* specification leaves the variables of the other components unchanged.   *)
(***************************************************************************)
EXTENDS Integers, Sequences, FiniteSets, TLC

Max(a, b) == IF a >= b THEN a ELSE b

Min(a, b) == IF a <= b THEN a ELSE b

(***************************************************************************)
(* Bounds of the model.                                                    *)
(***************************************************************************)
\* largest message / event id handed to the cursor store
MaxId == 2

\* the group ids used with the cursor store
Groups == {"g1", "g2"}

Ids == 0..MaxId

\* number of group requests (NextRequestId calls) one client instance makes
MaxReq == 3

\* the texts the socket takes before SendText starts to fail
MaxWire == 2

\* the connection attempts of the reconnect loop that may fail in a row
MaxAttempts == 2

\* the largest number of messages, and of events, the group server holds
MaxMsgs == 5

MaxEvents == 2

\* the longest member list handed to CreateSession
MaxMembers == 3

(***************************************************************************)
(* LocalCursorStore (group/cursor_store.cpp).                              *)
(*   cursors_   the in-memory map; an absent key is present = FALSE        *)
(*   dirty_     the dirty flag                                             *)
(*   file_path_ "" is the pure in-memory mode                              *)
(*   disk       the JSON file at file_path_: exists, and the map it holds  *)
(* Every method takes mutex_, so every method is one atomic step.  The     *)
(* file is one the process can open: ofs.is_open() holds in Write.         *)
(* History kept for the checks only: saved[g] is the pair of the largest   *)
(* values handed to SaveMsgCursor / SaveEventCursor for g so far, lastOp   *)
(* the store method called last.                                           *)
(***************************************************************************)
VARIABLES cursors_, dirty_, file_path_, disk, saved, lastOp

csVars == <<cursors_, dirty_, file_path_, disk, saved, lastOp>>

\* struct CursorEntry, and the value that stands for "no such key"
CursorEntry(m, e) == [present |-> TRUE, msg_cursor |-> m, event_cursor |-> e]

NoEntry == [present |-> FALSE, msg_cursor |-> 0, event_cursor |-> 0]

EmptyMap == [g \in Groups |-> NoEntry]

\* cursors_[group_id]: std::map::operator[] inserts a default entry
Subscript(map, g) == IF map[g].present THEN map[g] ELSE CursorEntry(0, 0)

\* Load(): a missing file leaves cursors_ empty, else every key is read
LoadFile(d) == IF d.exists THEN d.json ELSE EmptyMap

CSInit ==
    /\ file_path_ \in {"", "cursors.json"}
    /\ disk = [exists |-> FALSE, json |-> EmptyMap]
    /\ cursors_ = EmptyMap
    /\ dirty_ = FALSE
    /\ saved = [g \in Groups |-> <<0, 0>>]
    /\ lastOp = "LocalCursorStore"

SaveMsgCursorUnchecked(g, v) ==
    LET entry == Subscript(cursors_, g) IN
    /\ cursors_' = [cursors_ EXCEPT ![g] = [entry EXCEPT !.msg_cursor = v]]
    /\ dirty_' = TRUE
    /\ UNCHANGED <<file_path_, disk>>

SaveMsgCursor(g, v) ==
    LET entry == Subscript(cursors_, g) IN
    /\ IF v > entry.msg_cursor
          THEN /\ cursors_' = [cursors_ EXCEPT ![g] = [entry EXCEPT !.msg_cursor = v]]
               /\ dirty_' = TRUE
          ELSE /\ cursors_' = [cursors_ EXCEPT ![g] = entry]
               /\ UNCHANGED dirty_
    /\ UNCHANGED <<file_path_, disk>>

SaveEventCursor(g, v) ==
    LET entry == Subscript(cursors_, g) IN
    /\ IF v > entry.event_cursor
          THEN /\ cursors_' = [cursors_ EXCEPT ![g] = [entry EXCEPT !.event_cursor = v]]
               /\ dirty_' = TRUE
          ELSE /\ cursors_' = [cursors_ EXCEPT ![g] = entry]
               /\ UNCHANGED dirty_
    /\ UNCHANGED <<file_path_, disk>>

\* LoadCursor(group_id): the pair it returns (it changes nothing)
LoadCursor(g) ==
    IF ~cursors_[g].present THEN <<0, 0>>
    ELSE <<cursors_[g].msg_cursor, cursors_[g].event_cursor>>

RemoveCursor(g) ==
    /\ IF cursors_[g].present
          THEN /\ cursors_' = [cursors_ EXCEPT ![g] = NoEntry]
               /\ dirty_' = TRUE
          ELSE UNCHANGED <<cursors_, dirty_>>
    /\ UNCHANGED <<file_path_, disk>>

\* Write(): dump every entry of cursors_ to the file, clear dirty_
Write ==
    /\ disk' = [exists |-> TRUE, json |-> cursors_]
    /\ dirty_' = FALSE

FlushNever ==
    UNCHANGED <<disk, dirty_>>

Flush ==
    IF file_path_ = "" \/ ~dirty_
       THEN UNCHANGED <<disk, dirty_>>
       ELSE Write

\* Close() is Flush(); the store stays usable afterwards
Close ==
    /\ Flush
    /\ UNCHANGED <<cursors_, file_path_>>

\* ~LocalCursorStore() (Close) followed by LocalCursorStore(file_path_) (Load)
\* on the same file; only a file-backed store can be reopened.
Reopen ==
    /\ file_path_ # ""
    /\ Flush
    /\ cursors_' = LoadFile(disk')
    /\ UNCHANGED file_path_

(***************************************************************************)
(* ACPGroupClient (group/group_client.cpp).                                *)
(*   closed_, seq_id_   the atomics of the client                          *)
(*   cursor_store_      whether SetCursorStore installed a store           *)
(*   pending_reqs_      the pending map: request id -> the caller whose    *)
(*                      PendingRequest the entry points to (NoCaller: no   *)
(*                      such key)                                          *)
(*   req[c]             caller c inside SendRequest: its position, the id  *)
(*                      it generated, its PendingRequest (ready,           *)
(*                      cancelled, response; shared with the map) and what *)
(*                      the call returned or threw                         *)
(*   closePc            the position of the thread inside Close            *)
(*   issued             history: the request ids generated so far          *)
(* The event handler is left out: dispatching a notification calls user    *)
(* code and leaves the client's state as it is.                            *)
(* A step is what a thread does between two acquisitions of pending_mutex_ *)
(* or two atomic accesses.                                                 *)
(***************************************************************************)
VARIABLES closed_, seq_id_, cursor_store_, pending_reqs_, req, closePc, issued

gcVars == <<closed_, seq_id_, cursor_store_, pending_reqs_, req, closePc, issued>>

\* the threads that call SendRequest
Callers == {"t1", "t2"}

NoCaller == "none"

\* values of system_clock::now() in ms; the clock may stand still or step back
Times == {1, 2}

\* a request id "<agent_id>-<now>-<seq>" of this client
ReqIds == Times \X (0..(MaxReq + 1))

NoId == <<0, 0>>

\* NextRequestId without the sequence number (the id built from the time only)
NextRequestIdNoSeq(now, seq) == <<now, 0>>

NextRequestId(now, seq) == <<now, seq>>

\* response codes: SUCCESS and one error code (GROUP_NOT_FOUND)
Codes == {0, 1001}

\* struct GroupResponse as ParseResponse fills it; a default-constructed one
GroupResponse(id, code) == [request_id |-> id, code |-> code]

NoResponse == GroupResponse(NoId, -1)

\* what a call ends with: a returned response or a thrown exception
Returned(r) == [kind |-> "return", type |-> "GroupResponse", what |-> "", response |-> r]

Thrown(type, what) == [kind |-> "throw", type |-> type, what |-> what, response |-> NoResponse]

NoOutcome == [kind |-> "none", type |-> "", what |-> "", response |-> NoResponse]

ErrClosed == Thrown("std::runtime_error", "group client is closed")

ErrSendFailed == Thrown("std::runtime_error", "send failed: ")

ErrCancelled == Thrown("std::runtime_error", "request cancelled: reqId=")

ErrTimeout == Thrown("std::runtime_error", "request timeout: action=")

\* GroupOperations::Check: a non-zero code is thrown as a GroupError
ErrProtocol == Thrown("GroupError", "code")

Check(o) == IF o.kind = "return" /\ o.response.code # 0 THEN ErrProtocol ELSE o

IdleReq == [pc |-> "idle", req_id |-> NoId, ready |-> FALSE, cancelled |-> FALSE,
            response |-> NoResponse, outcome |-> NoOutcome]

GCInit ==
    /\ closed_ = FALSE
    /\ seq_id_ = 0
    /\ cursor_store_ \in BOOLEAN
    /\ pending_reqs_ = [id \in ReqIds |-> NoCaller]
    /\ req = [c \in Callers |-> IdleReq]
    /\ closePc = "idle"
    /\ issued = {}

\* pending_reqs_.erase(req_id)
Erase(id) == [pending_reqs_ EXCEPT ![id] = NoCaller]

\* SendRequest, lines 118-128: the closed check, NextRequestId, the new
\* PendingRequest
SendRequestBegin(c) ==
    /\ req[c].pc = "idle"
    /\ IF closed_
          THEN /\ req' = [req EXCEPT ![c] = [IdleReq EXCEPT !.pc = "done", !.outcome = ErrClosed]]
               /\ UNCHANGED <<seq_id_, issued>>
          ELSE /\ seq_id_ < MaxReq
               /\ seq_id_' = seq_id_ + 1
               /\ \E now \in Times :
                    LET id == NextRequestId(now, seq_id_ + 1) IN
                    /\ req' = [req EXCEPT ![c] = [IdleReq EXCEPT !.pc = "register", !.req_id = id]]
                    /\ issued' = issued \cup {id}
    /\ UNCHANGED <<closed_, cursor_store_, pending_reqs_, closePc>>

\* lines 130-133: pending_reqs_[req_id] = pending, under pending_mutex_
SendRequestRegister(c) ==
    /\ req[c].pc = "register"
    /\ pending_reqs_' = [pending_reqs_ EXCEPT ![req[c].req_id] = c]
    /\ req' = [req EXCEPT ![c].pc = "send"]
    /\ UNCHANGED <<closed_, seq_id_, cursor_store_, closePc, issued>>

\* lines 136-142: send_func; when it throws the entry is erased
SendRequestSend(c) ==
    /\ req[c].pc = "send"
    /\ \/ /\ req' = [req EXCEPT ![c].pc = "wait"]
          /\ UNCHANGED pending_reqs_
       \/ /\ pending_reqs_' = Erase(req[c].req_id)
          /\ req' = [req EXCEPT ![c].pc = "done", ![c].outcome = ErrSendFailed]
    /\ UNCHANGED <<closed_, seq_id_, cursor_store_, closePc, issued>>

\* lines 153-163 with the outcomes for timeout and cancellation exchanged
WaitOutcomeSwapped(p, got_it) ==
    IF p.cancelled THEN ErrTimeout
    ELSE IF ~got_it THEN ErrCancelled
    ELSE Returned(p.response)

\* lines 153-163 with ready tested before cancelled
WaitOutcomeReadyFirst(p, got_it) ==
    IF p.ready THEN Returned(p.response)
    ELSE IF p.cancelled THEN ErrCancelled
    ELSE ErrTimeout

\* lines 153-163: what SendRequest does once wait_for has returned got_it
WaitOutcome(p, got_it) ==
    IF p.cancelled THEN ErrCancelled
    ELSE IF ~got_it THEN ErrTimeout
    ELSE Returned(p.response)

\* wait_for returns when the predicate holds (got_it) or the timeout expires
\* with the predicate false (~got_it)
WaitReturns(p, got_it) == got_it = (p.ready \/ p.cancelled)

\* SendRequestWait without the erase of line 150
SendRequestWaitKeeping(c) ==
    /\ req[c].pc = "wait"
    /\ \E got_it \in BOOLEAN :
         /\ WaitReturns(req[c], got_it)
         /\ req' = [req EXCEPT ![c].pc = "done",
                               ![c].outcome = WaitOutcome(req[c], got_it)]
    /\ UNCHANGED <<closed_, seq_id_, cursor_store_, pending_reqs_, closePc, issued>>

\* lines 145-163: wait_for returns, the entry is erased, the call ends
SendRequestWait(c) ==
    /\ req[c].pc = "wait"
    /\ \E got_it \in BOOLEAN :
         /\ WaitReturns(req[c], got_it)
         /\ req' = [req EXCEPT ![c].pc = "done",
                               ![c].outcome = WaitOutcome(req[c], got_it)]
    /\ pending_reqs_' = Erase(req[c].req_id)
    /\ UNCHANGED <<closed_, seq_id_, cursor_store_, closePc, issued>>

\* the caller has its result and may call SendRequest again
SendRequestDone(c) ==
    /\ req[c].pc = "done"
    /\ req' = [req EXCEPT ![c] = IdleReq]
    /\ UNCHANGED <<closed_, seq_id_, cursor_store_, pending_reqs_, closePc, issued>>

\* an inbound payload that carries a request_id, as ParseResponse reads it
Payloads == [request_id : ReqIds, code : Codes]

\* HandleIncoming, lines 166-199: a payload whose request_id is found in the
\* pending map is stored as the response of that entry and wakes its waiter;
\* with any other request_id nothing is stored.
HandleIncoming(m) ==
    LET owner == pending_reqs_[m.request_id] IN
    /\ owner # NoCaller
    /\ req' = [req EXCEPT ![owner].response = GroupResponse(m.request_id, m.code),
                          ![owner].ready = TRUE]
    /\ UNCHANGED <<closed_, seq_id_, cursor_store_, pending_reqs_, closePc, issued>>

\* the ids of the requests that are on the wire and not yet answered to the
\* caller: the group AP answers those (also twice, also after Close)
OnWire == {req[c].req_id : c \in {d \in Callers : req[d].pc = "wait"}}

GroupIncoming == \E m \in Payloads : m.request_id \in OnWire /\ HandleIncoming(m)

\* Close, lines 299-303: the compare-and-swap on closed_
CloseBegin ==
    /\ closePc = "idle"
    /\ ~closed_
    /\ closed_' = TRUE
    /\ closePc' = "sweep"
    /\ UNCHANGED <<seq_id_, cursor_store_, pending_reqs_, req, issued>>

\* lines 306-313: every pending request is marked cancelled, the map cleared
CloseSweep ==
    /\ closePc = "sweep"
    /\ req' = [c \in Callers |->
                 IF \E id \in ReqIds : pending_reqs_[id] = c
                    THEN [req[c] EXCEPT !.cancelled = TRUE]
                    ELSE req[c]]
    /\ pending_reqs_' = [id \in ReqIds |-> NoCaller]
    /\ closePc' = "store"
    /\ UNCHANGED <<closed_, seq_id_, cursor_store_, issued>>

\* lines 316-325: the cursor store, if any, is closed outside the lock
CloseStore ==
    /\ closePc = "store"
    /\ closePc' = "done"
    /\ IF cursor_store_ THEN Close ELSE UNCHANGED <<cursors_, dirty_, file_path_, disk>>
    /\ UNCHANGED <<closed_, seq_id_, cursor_store_, pending_reqs_, req, issued>>

(***************************************************************************)
(* MessageClient (client/message_client.cpp).                              *)
(*   state_, shutdown_requested_, reconnect_loop_running_  the atomics     *)
(*   auto_reconnect     config_.auto_reconnect                             *)
(*   ws_                the WebSocketClient the client owns: exists (ws_   *)
(*                      is not null), connected (impl_->connected), phase  *)
(*                      (what its socket thread is doing: "idle" before    *)
(*                      start, "connecting", "open", "closed")             *)
(*   reconnect_thread_  the position of the thread running ReconnectLoop:  *)
(*                      "none" (not joinable), "top", "enter", "sleep",    *)
(*                      "create", "connect", "backoff",                    *)
(*                      "ok", "finished" (returned, still joinable)        *)
(*   current_reconnect_interval_, reconnect_attempt_count_                 *)
(*   message_handler_   whether SetMessageHandler installed a handler      *)
(*   message_queue_     the queue of buffered messages                     *)
(*   ack_waiters_       request id -> the caller whose AckWaiter the entry *)
(*                      points to (NoCaller: no such key)                  *)
(*   ack[a]             caller a inside SendAndWaitAck: its position, the  *)
(*                      expected cmd, its AckWaiter (ready, result) and    *)
(*                      the string the call returned                       *)
(*   connectPc, disconnectPc  the threads inside Connect and Disconnect    *)
(*   sender             a thread inside SendMessage                        *)
(*   wire               the texts SendText handed to the socket            *)
(* History kept for the checks only: lastFrame is the frame OnWsMessage    *)
(* handled last and what became of it.                                     *)
(* A step is what a thread does between two accesses to shared state.      *)
(***************************************************************************)
VARIABLES state_, shutdown_requested_, reconnect_loop_running_, auto_reconnect,
          ws_, reconnect_thread_, current_reconnect_interval_,
          reconnect_attempt_count_, message_handler_, message_queue_,
          ack_waiters_, ack, connectPc, disconnectPc, wire, lastFrame, sender

mcVars == <<state_, shutdown_requested_, reconnect_loop_running_, auto_reconnect,
            ws_, reconnect_thread_, current_reconnect_interval_,
            reconnect_attempt_count_, message_handler_, message_queue_,
            ack_waiters_, ack, connectPc, disconnectPc, wire, lastFrame, sender>>

\* the threads that call SendAndWaitAck
AckCallers == {"a1", "a2"}

\* protocol::GenerateUuidHex: each call of SendAndWaitAck gets its own id
RequestIdOf(a) == IF a = "a1" THEN "r1" ELSE "r2"

AckIds == {RequestIdOf(a) : a \in AckCallers}

\* the cmd values of frames: two acks callers wait for
Cmds == {"create_session_ack", "session_create_stream_ack"}

\* what the data of a frame holds besides the request id
Bodies == {"x", "y"}

\* the request_id member of a data object: a string, absent (""), or not a
\* string ("#7": get<std::string>() throws)
RequestIdFields == AckIds \cup {"", "#7"}

\* env.data_json: an object <<request_id member, the rest>>, or the empty
\* string when the envelope has no "data" (json::parse throws on it)
EmptyString == <<>>

DataJsons == (RequestIdFields \X Bodies) \cup {EmptyString}

\* a text frame: whether protocol::ParseEnvelope accepts it, its cmd, its data
Unparsable == [parses |-> FALSE, cmd |-> "", data |-> EmptyString]

Frames == [parses : {TRUE}, cmd : Cmds, data : DataJsons] \cup {Unparsable}

NoFrame == [frame |-> Unparsable, handled |-> FALSE, fulfilled |-> NoCaller,
            forwarded |-> FALSE]

\* the messages a caller hands to SendMessage
Msgs == {"m1", "m2"}

\* a thread calling SendMessage: its position, the message, whether the
\* call found the client disconnected, what it returned
IdleSend == [pc |-> "idle", msg |-> "", disconnected |-> FALSE, ok |-> FALSE,
             ws_freed |-> FALSE]

IdleAck == [pc |-> "idle", cmd |-> "", ready |-> FALSE, result |-> EmptyString,
            ret |-> EmptyString, ws_freed |-> FALSE]

NoWs == [exists |-> FALSE, connected |-> FALSE, phase |-> "idle", maker |-> ""]

\* MessageClientConfig as the client is given it, in units of 0.5 s:
\* reconnect_base_interval, reconnect_backoff_factor, reconnect_max_interval
BaseInterval == 1

BackoffFactor == 2

MaxInterval == 4

\* the default member initializer of current_reconnect_interval_ (0.5f)
InitialInterval == 1

MCInit ==
    /\ state_ = "Disconnected"
    /\ shutdown_requested_ = FALSE
    /\ reconnect_loop_running_ = FALSE
    /\ auto_reconnect \in BOOLEAN
    /\ ws_ = NoWs
    /\ reconnect_thread_ = "none"
    /\ current_reconnect_interval_ = InitialInterval
    /\ reconnect_attempt_count_ = 0
    /\ message_handler_ = TRUE
    /\ message_queue_ = <<>>
    /\ ack_waiters_ = [id \in AckIds |-> NoCaller]
    /\ ack = [a \in AckCallers |-> IdleAck]
    /\ connectPc = "idle"
    /\ disconnectPc = "idle"
    /\ wire = <<>>
    /\ lastFrame = NoFrame
    /\ sender = IdleSend

\* a WebSocketClient just made and started by `maker`
NewWs(maker) == [exists |-> TRUE, connected |-> FALSE, phase |-> "connecting",
                 maker |-> maker]

\* what SendMessage does once it has read ws_ non-null, lines 102-105:
\* IsConnected and SendText on that WebSocketClient.  "sent" and "failed"
\* are the values true and false; SendText fails when not connected and may
\* fail when connected.  On a WebSocketClient that Disconnect or the
\* reconnect loop destroyed in between, the calls are on a dangling pointer:
\* any value, or the call never returns
SendMessageOutcomes(ws_freed) ==
    IF ws_freed THEN {"sent", "failed", "crashed"}
    ELSE IF ws_.connected /\ Len(wire) < MaxWire THEN {"sent", "failed"}
    ELSE {"failed"}

\* the wire after SendMessage(msg) came to outcome o
Sent(msg, o, ws_freed) == IF o = "sent" /\ ~ws_freed THEN Append(wire, msg) ELSE wire

\* the threads inside SendMessage that hold the pointer read from ws_ learn
\* nothing when that WebSocketClient is destroyed
WsDestroyed ==
    /\ ack' = [a \in AckCallers |->
                 IF ack[a].pc = "send" /\ ws_.exists
                 THEN [ack[a] EXCEPT !.ws_freed = TRUE]
                 ELSE ack[a]]
    /\ sender' = IF sender.pc = "send" /\ ws_.exists
                 THEN [sender EXCEPT !.ws_freed = TRUE]
                 ELSE sender

\* MessageClient::SendMessage called on its own, line 102: the read of ws_
SendMessageLoad(msg) ==
    /\ sender.pc \in {"idle", "returned"}
    /\ sender' = IF ws_.exists
                 THEN [IdleSend EXCEPT !.pc = "send", !.msg = msg]
                 ELSE [IdleSend EXCEPT !.pc = "returned", !.msg = msg,
                                       !.disconnected = TRUE]
    /\ UNCHANGED <<state_, shutdown_requested_, reconnect_loop_running_,
                   auto_reconnect, ws_, reconnect_thread_,
                   current_reconnect_interval_, reconnect_attempt_count_,
                   message_handler_, message_queue_, ack_waiters_, ack,
                   connectPc, disconnectPc, wire, lastFrame>>

\* MessageClient::SendMessage called on its own, lines 102-109
SendMessageSend ==
    /\ sender.pc = "send"
    /\ \E o \in SendMessageOutcomes(sender.ws_freed) :
        /\ wire' = Sent(sender.msg, o, sender.ws_freed)
        /\ sender' = [sender EXCEPT
                        !.pc = IF o = "crashed" THEN "crashed" ELSE "returned",
                        !.ok = (o = "sent"),
                        !.disconnected = ~sender.ws_freed /\ ~ws_.connected]
    /\ UNCHANGED <<state_, shutdown_requested_, reconnect_loop_running_,
                   auto_reconnect, ws_, reconnect_thread_,
                   current_reconnect_interval_, reconnect_attempt_count_,
                   message_handler_, message_queue_, ack_waiters_, ack,
                   connectPc, disconnectPc, lastFrame>>

\* SendAndWaitAck, lines 116-123: make the waiter and put it in the map
SendAndWaitAckRegister(a, cmd) ==
    /\ ack[a].pc = "idle"
    /\ ack' = [ack EXCEPT ![a] = [IdleAck EXCEPT !.pc = "registered", !.cmd = cmd]]
    /\ ack_waiters_' = [ack_waiters_ EXCEPT ![RequestIdOf(a)] = a]
    /\ UNCHANGED <<state_, shutdown_requested_, reconnect_loop_running_,
                   auto_reconnect, ws_, reconnect_thread_,
                   current_reconnect_interval_, reconnect_attempt_count_,
                   message_handler_, message_queue_, connectPc, disconnectPc,
                   wire, lastFrame, sender>>

\* SendAndWaitAck, line 125 with SendMessage, line 102: the read of ws_;
\* when it is null SendMessage returns false, the key is erased, {} returned
SendAndWaitAckLoad(a) ==
    /\ ack[a].pc = "registered"
    /\ IF ws_.exists
       THEN /\ ack' = [ack EXCEPT ![a].pc = "send"]
            /\ UNCHANGED ack_waiters_
       ELSE /\ ack' = [ack EXCEPT ![a].pc = "done", ![a].ret = EmptyString]
            /\ ack_waiters_' = [ack_waiters_ EXCEPT ![RequestIdOf(a)] = NoCaller]
    /\ UNCHANGED <<state_, shutdown_requested_, reconnect_loop_running_,
                   auto_reconnect, ws_, reconnect_thread_,
                   current_reconnect_interval_, reconnect_attempt_count_,
                   message_handler_, message_queue_, connectPc, disconnectPc,
                   wire, lastFrame, sender>>

\* SendAndWaitAck, lines 125-129: the send; on failure erase and return {}
SendAndWaitAckSend(a) ==
    /\ ack[a].pc = "send"
    /\ \E o \in SendMessageOutcomes(ack[a].ws_freed) :
        /\ wire' = Sent(RequestIdOf(a), o, ack[a].ws_freed)
        /\ IF o = "sent"
           THEN /\ ack' = [ack EXCEPT ![a].pc = "wait"]
                /\ UNCHANGED ack_waiters_
           ELSE IF o = "failed"
           THEN /\ ack' = [ack EXCEPT ![a].pc = "done", ![a].ret = EmptyString]
                /\ ack_waiters_' = [ack_waiters_ EXCEPT ![RequestIdOf(a)] = NoCaller]
           ELSE /\ ack' = [ack EXCEPT ![a].pc = "crashed"]
                /\ UNCHANGED ack_waiters_
    /\ UNCHANGED <<state_, shutdown_requested_, reconnect_loop_running_,
                   auto_reconnect, ws_, reconnect_thread_,
                   current_reconnect_interval_, reconnect_attempt_count_,
                   message_handler_, message_queue_, connectPc, disconnectPc,
                   lastFrame, sender>>

\* cv.wait_for(lock, timeout, [ready]) returns got_it: true once ready is set,
\* false when the timeout passes with ready still false
AckWaitReturns(w, got_it) == got_it = w.ready

\* SendAndWaitAck, lines 139-142: what the call returns
AckResult(w, got_it) ==
    IF got_it /\ w.result # EmptyString THEN w.result ELSE EmptyString

\* SendAndWaitAck, lines 132-142: the wait ends; erase the key and return
SendAndWaitAckWait(a) ==
    /\ ack[a].pc = "wait"
    /\ \E got_it \in BOOLEAN :
        /\ AckWaitReturns(ack[a], got_it)
        /\ ack' = [ack EXCEPT ![a].pc = "done", ![a].ret = AckResult(ack[a], got_it)]
    /\ ack_waiters_' = [ack_waiters_ EXCEPT ![RequestIdOf(a)] = NoCaller]
    /\ UNCHANGED <<state_, shutdown_requested_, reconnect_loop_running_,
                   auto_reconnect, ws_, reconnect_thread_,
                   current_reconnect_interval_, reconnect_attempt_count_,
                   message_handler_, message_queue_, connectPc, disconnectPc,
                   wire, lastFrame, sender>>

\* MatchingWaiter without the comparison of the cmd
MatchingWaiterAnyCmd(f) ==
    IF f.data = EmptyString THEN NoCaller
    ELSE IF f.data[1] \notin AckIds THEN NoCaller
    ELSE ack_waiters_[f.data[1]]

\* lines 200-212: the caller whose waiter the frame fulfils, NoCaller when
\* none: json::parse or get<std::string> throws, no request_id, no waiter
\* under that id, or a waiter expecting another cmd
MatchingWaiter(f) ==
    IF f.data = EmptyString THEN NoCaller
    ELSE IF f.data[1] \notin AckIds THEN NoCaller
    ELSE IF ack_waiters_[f.data[1]] = NoCaller THEN NoCaller
    ELSE IF ack[ack_waiters_[f.data[1]]].cmd # f.cmd THEN NoCaller
    ELSE ack_waiters_[f.data[1]]

\* MessageClient::OnWsMessage
OnWsMessage(f) ==
    /\ IF ~f.parses
       THEN /\ lastFrame' = [frame |-> f, handled |-> TRUE, fulfilled |-> NoCaller,
                             forwarded |-> FALSE]
            /\ UNCHANGED ack
       ELSE IF MatchingWaiter(f) # NoCaller
       THEN /\ ack' = [ack EXCEPT ![MatchingWaiter(f)].result = f.data,
                                  ![MatchingWaiter(f)].ready = TRUE]
            /\ lastFrame' = [frame |-> f, handled |-> TRUE,
                             fulfilled |-> MatchingWaiter(f), forwarded |-> FALSE]
       ELSE /\ lastFrame' = [frame |-> f, handled |-> TRUE, fulfilled |-> NoCaller,
                             forwarded |-> message_handler_]
            /\ UNCHANGED ack
    /\ UNCHANGED <<state_, shutdown_requested_, reconnect_loop_running_,
                   auto_reconnect, ws_, reconnect_thread_,
                   current_reconnect_interval_, reconnect_attempt_count_,
                   message_handler_, message_queue_, ack_waiters_, connectPc,
                   disconnectPc, wire, sender>>

\* MessageClient::StartReconnectLoopIfNeeded, as one step of the calling
\* thread.  join() returns once the loop's thread has finished.
StartReconnectLoopIfNeeded ==
    IF ~auto_reconnect \/ shutdown_requested_
    THEN UNCHANGED <<reconnect_loop_running_, reconnect_thread_>>
    ELSE IF reconnect_loop_running_
    THEN UNCHANGED <<reconnect_loop_running_, reconnect_thread_>>
    ELSE /\ reconnect_thread_ \in {"none", "finished"}
         /\ reconnect_loop_running_' = TRUE
         /\ reconnect_thread_' = "top"

\* MessageClient::FlushPendingMessages: the texts it hands to SendText
FlushPendingMessages ==
    /\ message_queue_' = IF ws_'.exists /\ ws_'.connected THEN <<>> ELSE message_queue_
    /\ wire' = IF ws_'.exists /\ ws_'.connected THEN wire \o message_queue_ ELSE wire

\* MessageClient::Connect, lines 49-63: up to the start of the socket
ConnectBegin ==
    /\ connectPc = "idle"
    /\ IF state_ = "Connected" \/ shutdown_requested_
       THEN /\ connectPc' = "done"
            /\ UNCHANGED <<state_, ws_, ack, sender>>
       ELSE /\ state_' = "Connecting"
            /\ ws_' = NewWs("Connect")
            /\ WsDestroyed
            /\ connectPc' = "connect"
    /\ UNCHANGED <<shutdown_requested_, reconnect_loop_running_, auto_reconnect,
                   reconnect_thread_, current_reconnect_interval_,
                   reconnect_attempt_count_, message_handler_, message_queue_,
                   ack_waiters_, disconnectPc, wire, lastFrame>>

\* what ws_->Connect(url) can return to `maker`: impl_->connected as read
\* when the poll ends (the 5000 ms may pass at any time); any value when the
\* WebSocketClient was destroyed under the poll
WsConnectResults(maker) ==
    IF ws_.exists /\ ws_.maker = maker THEN {ws_.connected} ELSE BOOLEAN

\* MessageClient::Connect, lines 64-71: ws_->Connect returned
ConnectReturn ==
    /\ connectPc = "connect"
    /\ connectPc' = "done"
    /\ \E ok \in WsConnectResults("Connect") :
        IF ok
        THEN UNCHANGED <<state_, reconnect_loop_running_, reconnect_thread_>>
        ELSE /\ state_' = "Disconnected"
             /\ StartReconnectLoopIfNeeded
    /\ UNCHANGED <<shutdown_requested_, auto_reconnect, ws_,
                   current_reconnect_interval_, reconnect_attempt_count_,
                   message_handler_, message_queue_, ack_waiters_, ack,
                   disconnectPc, wire, lastFrame, sender>>

\* the socket thread reports Open: websocket_client.cpp 82-87, then
\* MessageClient::OnWsOpen
OnWsOpen ==
    /\ ws_.exists /\ ws_.phase = "connecting"
    /\ ws_' = [ws_ EXCEPT !.connected = TRUE, !.phase = "open"]
    /\ state_' = "Connected"
    /\ current_reconnect_interval_' = BaseInterval
    /\ reconnect_attempt_count_' = 0
    /\ FlushPendingMessages
    /\ UNCHANGED <<shutdown_requested_, reconnect_loop_running_, auto_reconnect,
                   reconnect_thread_, message_handler_, ack_waiters_, ack,
                   connectPc, disconnectPc, lastFrame, sender>>

\* the socket thread reports Close: websocket_client.cpp 88-93, then
\* MessageClient::OnWsClose
OnWsClose ==
    /\ ws_.exists /\ ws_.phase = "open"
    /\ ws_' = [ws_ EXCEPT !.connected = FALSE, !.phase = "closed"]
    /\ state_' = "Disconnected"
    /\ StartReconnectLoopIfNeeded
    /\ UNCHANGED <<shutdown_requested_, auto_reconnect,
                   current_reconnect_interval_, reconnect_attempt_count_,
                   message_handler_, message_queue_, ack_waiters_, ack,
                   connectPc, disconnectPc, wire, lastFrame, sender>>

\* the socket thread reports Error (the connection attempt failed):
\* websocket_client.cpp 94-99, then MessageClient::OnWsError
OnWsError ==
    /\ ws_.exists /\ ws_.phase = "connecting"
    /\ ws_' = [ws_ EXCEPT !.connected = FALSE, !.phase = "closed"]
    /\ state_' = "Disconnected"
    /\ StartReconnectLoopIfNeeded
    /\ UNCHANGED <<shutdown_requested_, auto_reconnect,
                   current_reconnect_interval_, reconnect_attempt_count_,
                   message_handler_, message_queue_, ack_waiters_, ack,
                   connectPc, disconnectPc, wire, lastFrame, sender>>

\* the socket thread reports a text frame: websocket_client.cpp 70-81
WsMessage(f) == ws_.exists /\ ws_.phase = "open" /\ OnWsMessage(f)

\* lines 282-284: the next interval
Backoff(interval) == Min(interval * BackoffFactor, MaxInterval)

\* ReconnectLoop, line 255: the loop condition; lines 287-288 when it fails
ReconnectLoopTop ==
    /\ reconnect_thread_ = "top"
    /\ IF shutdown_requested_
       THEN /\ reconnect_loop_running_' = FALSE
            /\ reconnect_thread_' = "finished"
       ELSE /\ reconnect_thread_' = "enter"
            /\ UNCHANGED reconnect_loop_running_
    /\ UNCHANGED <<state_, shutdown_requested_, auto_reconnect, ws_,
                   current_reconnect_interval_, reconnect_attempt_count_,
                   message_handler_, message_queue_, ack_waiters_, ack,
                   connectPc, disconnectPc, wire, lastFrame, sender>>

\* ReconnectLoop, lines 256-259: the state is set, then the sleep begins
ReconnectLoopEnter ==
    /\ reconnect_thread_ = "enter"
    /\ state_' = "Reconnecting"
    /\ reconnect_thread_' = "sleep"
    /\ UNCHANGED <<shutdown_requested_, reconnect_loop_running_, auto_reconnect,
                   ws_, current_reconnect_interval_, reconnect_attempt_count_,
                   message_handler_, message_queue_, ack_waiters_, ack,
                   connectPc, disconnectPc, wire, lastFrame, sender>>

\* ReconnectLoop, line 261: after the sleep
ReconnectLoopWake ==
    /\ reconnect_thread_ = "sleep"
    /\ IF shutdown_requested_
       THEN /\ reconnect_loop_running_' = FALSE
            /\ reconnect_thread_' = "finished"
       ELSE /\ reconnect_thread_' = "create"
            /\ UNCHANGED reconnect_loop_running_
    /\ UNCHANGED <<state_, shutdown_requested_, auto_reconnect, ws_,
                   current_reconnect_interval_, reconnect_attempt_count_,
                   message_handler_, message_queue_, ack_waiters_, ack,
                   connectPc, disconnectPc, wire, lastFrame, sender>>

\* ReconnectLoop, lines 264-272: replace ws_ and start the new socket
ReconnectLoopCreate ==
    /\ reconnect_thread_ = "create"
    /\ ws_' = NewWs("ReconnectLoop")
    /\ WsDestroyed
    /\ reconnect_thread_' = "connect"
    /\ UNCHANGED <<state_, shutdown_requested_, reconnect_loop_running_,
                   auto_reconnect, current_reconnect_interval_,
                   reconnect_attempt_count_, message_handler_, message_queue_,
                   ack_waiters_, connectPc, disconnectPc, wire, lastFrame>>

\* ReconnectLoop, lines 273-276: ws_->Connect returned
ReconnectLoopConnectReturn ==
    /\ reconnect_thread_ = "connect"
    /\ \E ok \in WsConnectResults("ReconnectLoop") :
        reconnect_thread_' = IF ok THEN "ok" ELSE "backoff"
    /\ UNCHANGED <<state_, shutdown_requested_, reconnect_loop_running_,
                   auto_reconnect, ws_, current_reconnect_interval_,
                   reconnect_attempt_count_, message_handler_, message_queue_,
                   ack_waiters_, ack, connectPc, disconnectPc, wire, lastFrame,
                   sender>>

\* ReconnectLoop, lines 281-285: the next interval, the attempt counted
ReconnectLoopBackoff ==
    /\ reconnect_thread_ = "backoff"
    /\ reconnect_attempt_count_ < MaxAttempts
    /\ current_reconnect_interval_' = Backoff(current_reconnect_interval_)
    /\ reconnect_attempt_count_' = reconnect_attempt_count_ + 1
    /\ reconnect_thread_' = "top"
    /\ UNCHANGED <<state_, shutdown_requested_, reconnect_loop_running_,
                   auto_reconnect, ws_, message_handler_, message_queue_,
                   ack_waiters_, ack, connectPc, disconnectPc, wire, lastFrame,
                   sender>>

\* ReconnectLoop, lines 277-278: clear the flag and return
ReconnectLoopSucceeded ==
    /\ reconnect_thread_ = "ok"
    /\ reconnect_loop_running_' = FALSE
    /\ reconnect_thread_' = "finished"
    /\ UNCHANGED <<state_, shutdown_requested_, auto_reconnect, ws_,
                   current_reconnect_interval_, reconnect_attempt_count_,
                   message_handler_, message_queue_, ack_waiters_, ack,
                   connectPc, disconnectPc, wire, lastFrame, sender>>

\* Disconnect, line 75
DisconnectBegin ==
    /\ disconnectPc = "idle"
    /\ shutdown_requested_' = TRUE
    /\ disconnectPc' = "stop"
    /\ UNCHANGED <<state_, reconnect_loop_running_, auto_reconnect, ws_,
                   reconnect_thread_, current_reconnect_interval_,
                   reconnect_attempt_count_, message_handler_, message_queue_,
                   ack_waiters_, ack, connectPc, wire, lastFrame, sender>>

\* Disconnect, lines 77-79: WebSocketClient::Disconnect stops the socket
DisconnectStop ==
    /\ disconnectPc = "stop"
    /\ ws_' = IF ws_.exists
              THEN [ws_ EXCEPT !.connected = FALSE, !.phase = "closed"]
              ELSE ws_
    /\ disconnectPc' = "state"
    /\ UNCHANGED <<state_, shutdown_requested_, reconnect_loop_running_,
                   auto_reconnect, reconnect_thread_,
                   current_reconnect_interval_, reconnect_attempt_count_,
                   message_handler_, message_queue_, ack_waiters_, ack,
                   connectPc, wire, lastFrame, sender>>

\* Disconnect, line 81
DisconnectState ==
    /\ disconnectPc = "state"
    /\ state_' = "Disconnected"
    /\ disconnectPc' = "join"
    /\ UNCHANGED <<shutdown_requested_, reconnect_loop_running_, auto_reconnect,
                   ws_, reconnect_thread_, current_reconnect_interval_,
                   reconnect_attempt_count_, message_handler_, message_queue_,
                   ack_waiters_, ack, connectPc, wire, lastFrame, sender>>

\* Disconnect, lines 83-86: join the loop's thread (blocks until it has
\* finished), clear the flag
DisconnectJoin ==
    /\ disconnectPc = "join"
    /\ reconnect_thread_ \in {"none", "finished"}
    /\ reconnect_thread_' = "none"
    /\ reconnect_loop_running_' = FALSE
    /\ disconnectPc' = "sweep"
    /\ UNCHANGED <<state_, shutdown_requested_, auto_reconnect, ws_,
                   current_reconnect_interval_, reconnect_attempt_count_,
                   message_handler_, message_queue_, ack_waiters_, ack,
                   connectPc, wire, lastFrame, sender>>

\* Disconnect, lines 89-96: wake every waiter in the map, clear the map
DisconnectSweep ==
    /\ disconnectPc = "sweep"
    /\ ack' = [a \in AckCallers |->
                 IF ack_waiters_[RequestIdOf(a)] = a
                 THEN [ack[a] EXCEPT !.ready = TRUE]
                 ELSE ack[a]]
    /\ ack_waiters_' = [id \in AckIds |-> NoCaller]
    /\ disconnectPc' = "reset"
    /\ UNCHANGED <<state_, shutdown_requested_, reconnect_loop_running_,
                   auto_reconnect, ws_, reconnect_thread_,
                   current_reconnect_interval_, reconnect_attempt_count_,
                   message_handler_, message_queue_, connectPc, wire,
                   lastFrame, sender>>

\* Disconnect, line 98: ws_.reset() destroys the WebSocketClient, whose
\* destructor stops the socket; for a socket that is open the library may
\* report Close on the way, and OnWsClose then stores Disconnected
DisconnectReset ==
    /\ disconnectPc = "reset"
    /\ ws_' = NoWs
    /\ WsDestroyed
    /\ state_' \in IF ws_.exists /\ ws_.connected
                   THEN {state_, "Disconnected"}
                   ELSE {state_}
    /\ disconnectPc' = "done"
    /\ UNCHANGED <<shutdown_requested_, reconnect_loop_running_,
                   auto_reconnect, reconnect_thread_,
                   current_reconnect_interval_, reconnect_attempt_count_,
                   message_handler_, message_queue_, ack_waiters_,
                   connectPc, wire, lastFrame>>

(***************************************************************************)
(* GroupOperations::SyncGroup (group/group_operations.cpp), one thread.    *)
(*   server   the group server as the requests see it: it holds the        *)
(*            messages 1..n and the events 1..m and its view of the        *)
(*            member's cursors (current_msg_id, current_event_id)          *)
(*   sync     the thread inside SyncGroup: its position, the cursor it     *)
(*            works with, `after`, and of the last pull the last id and    *)
(*            has_more; history: the cursor pairs of the server and of the *)
(*            local store as SyncGroup found them                          *)
(*   onMessages, onEvents        the batches handed to the SyncHandler     *)
(*   ackedMessages, ackedEvents  the ids the server accepted an ack for    *)
(* A SendRequest of the thread is one step: it returns the server's answer *)
(* with code 0, or it fails (timeout, cancellation, send failure or a      *)
(* non-zero code, which Check throws) and SyncGroup ends with that error.  *)
(***************************************************************************)
VARIABLES server, sync, onMessages, onEvents, ackedMessages, ackedEvents

syVars == <<server, sync, onMessages, onEvents, ackedMessages, ackedEvents>>

\* the group SyncGroup is called for
SyncGroupId == "g1"

\* the limit SyncMessages and SyncEventsLoop pass to the pulls
PullLimit == 50

IdleSync == [pc |-> "idle", current_msg_id |-> 0, current_event_id |-> 0,
             after |-> 0, last_id |-> 0, has_more |-> FALSE,
             server_at_start |-> <<0, 0>>, local_at_start |-> <<0, 0>>]

SYInit ==
    /\ server \in {sv \in [n : 0..MaxMsgs, m : 0..MaxEvents,
                           current_msg_id : 0..MaxMsgs,
                           current_event_id : 0..MaxEvents] :
                      sv.current_msg_id <= sv.n /\ sv.current_event_id <= sv.m}
    /\ sync = IdleSync
    /\ onMessages = <<>>
    /\ onEvents = <<>>
    /\ ackedMessages = <<>>
    /\ ackedEvents = <<>>

\* the ids from+1 .. from+k in order
Batch(from, k) == [i \in 1..k |-> from + i]

\* the server's answers to a pull after `pos` with `limit` over the ids
\* 1..top: at most limit of the ids above pos, in order, has_more telling
\* whether ids remain above the last one returned
PullAnswers(pos, limit, top) ==
    {[ids |-> Batch(pos, k), has_more |-> pos + k < top] :
        k \in 0..Min(limit, Max(top - pos, 0))}

\* the start position taken from the server alone
StartFromServer(server_current, local) == server_current

\* lines 281-286: the position the pulls start from
StartFrom(server_current, local) == Max(server_current, local)

\* the store's pair as SyncGroup reads it, <<0, 0>> without a store
LocalCursor == IF cursor_store_ THEN LoadCursor(SyncGroupId) ELSE <<0, 0>>

\* SyncGroup, lines 279-288: GetCursor, the merge with the local store, and
\* the first `after` of SyncMessages
SyncGroupBegin ==
    /\ sync.pc = "idle"
    /\ \/ sync' = [sync EXCEPT !.pc = "failed"]
       \/ LET msg == StartFrom(server.current_msg_id, LocalCursor[1])
              ev == StartFrom(server.current_event_id, LocalCursor[2])
          IN sync' = [sync EXCEPT !.pc = "pull_messages",
                                  !.current_msg_id = msg,
                                  !.current_event_id = ev,
                                  !.after = msg,
                                  !.server_at_start =
                                      <<server.current_msg_id, server.current_event_id>>,
                                  !.local_at_start = LocalCursor]
    /\ UNCHANGED <<server, onMessages, onEvents, ackedMessages, ackedEvents>>

\* PullMessages, lines 191-196: after_msg_id = 0 is sent as no position and
\* the server pulls from its own current_msg_id
PullPosition(after) == IF after > 0 THEN after ELSE server.current_msg_id

\* SyncMessages, lines 296-299 and 303: pull, hand the batch to OnMessages
SyncMessagesPull ==
    /\ sync.pc = "pull_messages"
    /\ \/ sync' = [sync EXCEPT !.pc = "failed"] /\ UNCHANGED onMessages
       \/ \E r \in PullAnswers(PullPosition(sync.after), PullLimit, server.n) :
            IF r.ids # <<>>
            THEN /\ onMessages' = Append(onMessages, r.ids)
                 /\ sync' = [sync EXCEPT !.pc = "ack_messages",
                                         !.last_id = r.ids[Len(r.ids)],
                                         !.has_more = r.has_more]
            ELSE /\ UNCHANGED onMessages
                 /\ sync' = IF r.has_more
                            THEN sync
                            ELSE [sync EXCEPT !.pc = "pull_events",
                                              !.after = sync.current_event_id]
    /\ UNCHANGED <<server, onEvents, ackedMessages, ackedEvents>>

\* SyncMessages, lines 300-303 with AckMessages, lines 213-221: the ack, the
\* save to the store, the new `after`
SyncMessagesAck ==
    /\ sync.pc = "ack_messages"
    /\ \/ /\ sync' = [sync EXCEPT !.pc = "failed"]
          /\ UNCHANGED <<server, ackedMessages, cursors_, dirty_, file_path_, disk>>
       \/ /\ ackedMessages' = Append(ackedMessages, sync.last_id)
          /\ server' = [server EXCEPT
                          !.current_msg_id = Max(@, sync.last_id)]
          /\ IF cursor_store_
             THEN SaveMsgCursor(SyncGroupId, sync.last_id)
             ELSE UNCHANGED <<cursors_, dirty_, file_path_, disk>>
          /\ sync' = IF sync.has_more
                     THEN [sync EXCEPT !.pc = "pull_messages", !.after = sync.last_id]
                     ELSE [sync EXCEPT !.pc = "pull_events",
                                       !.after = sync.current_event_id]
    /\ UNCHANGED <<onMessages, onEvents, ackedEvents>>

\* SyncEventsLoop, lines 311-314 and 318: pull, hand the batch to OnEvents
SyncEventsPull ==
    /\ sync.pc = "pull_events"
    /\ \/ sync' = [sync EXCEPT !.pc = "failed"] /\ UNCHANGED onEvents
       \/ \E r \in PullAnswers(sync.after, PullLimit, server.m) :
            IF r.ids # <<>>
            THEN /\ onEvents' = Append(onEvents, r.ids)
                 /\ sync' = [sync EXCEPT !.pc = "ack_events",
                                         !.last_id = r.ids[Len(r.ids)],
                                         !.has_more = r.has_more]
            ELSE /\ UNCHANGED onEvents
                 /\ sync' = IF r.has_more THEN sync
                            ELSE [sync EXCEPT !.pc = "done"]
    /\ UNCHANGED <<server, onMessages, ackedMessages, ackedEvents>>

\* SyncEventsLoop, lines 315-318 with AckEvents, lines 244-252
SyncEventsAck ==
    /\ sync.pc = "ack_events"
    /\ \/ /\ sync' = [sync EXCEPT !.pc = "failed"]
          /\ UNCHANGED <<server, ackedEvents, cursors_, dirty_, file_path_, disk>>
       \/ /\ ackedEvents' = Append(ackedEvents, sync.last_id)
          /\ server' = [server EXCEPT
                          !.current_event_id = Max(@, sync.last_id)]
          /\ IF cursor_store_
             THEN SaveEventCursor(SyncGroupId, sync.last_id)
             ELSE UNCHANGED <<cursors_, dirty_, file_path_, disk>>
          /\ sync' = IF sync.has_more
                     THEN [sync EXCEPT !.pc = "pull_events", !.after = sync.last_id]
                     ELSE [sync EXCEPT !.pc = "done"]
    /\ UNCHANGED <<onMessages, onEvents, ackedMessages>>

(***************************************************************************)
(* AgentID and AgentCP (agentid.cpp, agentcp.cpp), one agent.               *)
(*                                                                         *)
(*   agent     the AgentID object: state_, invalidated_, the sub-clients   *)
(*             ("none" for a null pointer), signature_ (TRUE when not      *)
(*             empty), and freed once the object has been deleted          *)
(*   acp       the AgentCP singleton: initialized_, ap_base_ (TRUE when    *)
(*             not empty) and aids_                                        *)
(*   online    the thread in AgentID::Online, which holds the agent's      *)
(*             mutex_ from its first line to its return                    *)
(*   offline   the threads in AgentID::Offline: "user" calls it on the     *)
(*             pointer CreateAID gave out, "owner" runs it from Invalidate *)
(*             and from the destructor                                     *)
(*   owner     the thread in AgentCP::DeleteAID or AgentCP::Shutdown       *)
(*   reported  the last pair handed to state_change_handler_               *)
(*   query     what IsValid, IsOnline and GetState last returned           *)
(*                                                                         *)
(* Offline takes mutex_ only to flip state_; its teardown runs unlocked.   *)
(* A member function called on the deleted object is undefined: it may     *)
(* return any value or never return.                                       *)
(***************************************************************************)
VARIABLES agent, acp, online, offline, owner, reported, query

agVars == <<agent, acp, online, offline, owner, reported, query>>

TheAid == "alice"

AgentStates == {"Offline", "Connecting", "Authenticating", "Online",
                "Reconnecting", "Error"}

OfflineThreads == {"user", "owner"}

\* the order in which Offline takes the sub-clients down
TeardownOrder == <<"group_client_", "message_client_", "heartbeat_client_",
                   "auth_client_">>

NewAgent == [state_ |-> "Offline", invalidated_ |-> FALSE, freed |-> FALSE,
             group_client_ |-> "none", message_client_ |-> "none",
             heartbeat_client_ |-> "none", auth_client_ |-> "none",
             signature_ |-> FALSE]

IdleOnline == [pc |-> "idle", result |-> "none"]

IdleOffline == [pc |-> "idle", i |-> 0, old_state |-> "Offline"]

NoReport == <<"none", "none">>

NoQuery == [valid |-> TRUE, online |-> FALSE, state |-> "Offline", freed |-> FALSE]

\* Initialize and CreateAID have been called; SetBaseUrls may have been
AGInit ==
    /\ agent = NewAgent
    /\ acp \in [initialized_ : {TRUE}, ap_base_ : BOOLEAN, aids_ : {{TheAid}}]
    /\ online = IdleOnline
    /\ offline = [t \in OfflineThreads |-> IdleOffline]
    /\ owner = [pc |-> "idle", op |-> "none"]
    /\ reported = NoReport
    /\ query = NoQuery

\* mutex_ of the agent is free: no thread is inside Online
AgentMutexFree == online.pc \in {"idle", "done", "crashed"}

\* what Online can come to when called on the deleted object
OnlineOnFreed == {"AID_INVALID", "NOT_INITIALIZED", "INVALID_ARGUMENT", "crashed"}

\* AgentID::Online, lines 35-54: the checks, state_ = Connecting, the report
OnlineBegin ==
    /\ online.pc \in {"idle", "done"}
    /\ IF agent.freed
       THEN /\ \E r \in OnlineOnFreed :
                online' = [pc |-> IF r = "crashed" THEN "crashed" ELSE "done",
                           result |-> r]
            /\ UNCHANGED <<agent, reported>>
       ELSE IF agent.invalidated_
       THEN /\ online' = [pc |-> "done", result |-> "AID_INVALID"]
            /\ UNCHANGED <<agent, reported>>
       ELSE IF ~acp.initialized_
       THEN /\ online' = [pc |-> "done", result |-> "NOT_INITIALIZED"]
            /\ UNCHANGED <<agent, reported>>
       ELSE IF agent.state_ \in {"Online", "Connecting"}
       THEN /\ online' = [pc |-> "done", result |-> "INVALID_ARGUMENT"]
            /\ UNCHANGED <<agent, reported>>
       ELSE /\ online' = [pc |-> "config", result |-> "none"]
            /\ agent' = [agent EXCEPT !.state_ = "Connecting"]
            /\ reported' = <<agent.state_, "Connecting">>
    /\ UNCHANGED <<acp, offline, owner, query>>

\* AgentID::Online, lines 56-81: without an AP base back to Offline, else
\* on to Authenticating
OnlineConfig ==
    /\ online.pc = "config"
    /\ IF ~acp.ap_base_
       THEN /\ agent' = [agent EXCEPT !.state_ = "Offline"]
            /\ reported' = <<"Connecting", "Offline">>
            /\ online' = [online EXCEPT !.pc = "done", !.result = "NOT_INITIALIZED"]
       ELSE /\ agent' = [agent EXCEPT !.state_ = "Authenticating"]
            /\ reported' = <<"Connecting", "Authenticating">>
            /\ online' = [online EXCEPT !.pc = "auth"]
    /\ UNCHANGED <<acp, offline, owner, query>>

\* lines 83-99 with a failed sign-in taking the agent back to Offline
OnlineAuthBackToOffline(ok) ==
    /\ online.pc = "auth"
    /\ IF ok
       THEN /\ agent' = [agent EXCEPT !.auth_client_ = "up", !.signature_ = TRUE]
            /\ online' = [online EXCEPT !.pc = "heartbeat"]
            /\ UNCHANGED reported
       ELSE /\ agent' = [agent EXCEPT !.state_ = "Offline", !.auth_client_ = "none"]
            /\ reported' = <<"Authenticating", "Offline">>
            /\ online' = [online EXCEPT !.pc = "done", !.result = "AUTH_FAILED"]
    /\ UNCHANGED <<acp, offline, owner, query>>

\* AgentID::Online, lines 83-99: the AP auth client and its SignIn
OnlineAuth(ok) ==
    /\ online.pc = "auth"
    /\ IF ok
       THEN /\ agent' = [agent EXCEPT !.auth_client_ = "up", !.signature_ = TRUE]
            /\ online' = [online EXCEPT !.pc = "heartbeat"]
            /\ UNCHANGED reported
       ELSE /\ agent' = [agent EXCEPT !.state_ = "Error", !.auth_client_ = "none"]
            /\ reported' = <<"Authenticating", "Error">>
            /\ online' = [online EXCEPT !.pc = "done", !.result = "AUTH_FAILED"]
    /\ UNCHANGED <<acp, offline, owner, query>>

HeartbeatResults == {"ok", "AUTH_FAILED", "NETWORK_ERROR"}

\* AgentID::Online, lines 148-174: the heartbeat client, its Initialize
\* (AUTH_FAILED when it fails) and its Online (NETWORK_ERROR when it fails)
OnlineHeartbeat(r) ==
    /\ online.pc = "heartbeat"
    /\ IF r = "ok"
       THEN /\ agent' = [agent EXCEPT !.heartbeat_client_ = "up"]
            /\ online' = [online EXCEPT !.pc = "message"]
            /\ UNCHANGED reported
       ELSE /\ agent' = [agent EXCEPT !.state_ = "Error",
                                      !.heartbeat_client_ = "none"]
            /\ reported' = <<"Authenticating", "Error">>
            /\ online' = [online EXCEPT !.pc = "done", !.result = r]
    /\ UNCHANGED <<acp, offline, owner, query>>

\* lines 192-301 with a failed Connect failing the bring-up
OnlineMessageMustConnect(connected) ==
    /\ online.pc = "message"
    /\ IF connected
       THEN /\ agent' = [agent EXCEPT !.auth_client_ = "up",
                                      !.message_client_ = "connected",
                                      !.state_ = "Online"]
            /\ reported' = <<"Authenticating", "Online">>
            /\ online' = [online EXCEPT !.pc = "done", !.result = "Ok"]
       ELSE /\ agent' = [agent EXCEPT !.message_client_ = "none",
                                      !.state_ = "Error"]
            /\ reported' = <<"Authenticating", "Error">>
            /\ online' = [online EXCEPT !.pc = "done", !.result = "NETWORK_ERROR"]
    /\ UNCHANGED <<acp, offline, owner, query>>

\* AgentID::Online, lines 192-301: the message client, the auth client for
\* the message server (kept whether or not its SignIn succeeds: on failure
\* the AP one stays), Connect, state_ = Online
OnlineMessage(connected) ==
    /\ online.pc = "message"
    /\ agent' = [agent EXCEPT
                   !.auth_client_ = "up",
                   !.message_client_ = IF connected THEN "connected"
                                       ELSE "disconnected",
                   !.state_ = "Online"]
    /\ reported' = <<"Authenticating", "Online">>
    /\ online' = [online EXCEPT !.pc = "done", !.result = "Ok"]
    /\ UNCHANGED <<acp, offline, owner, query>>

\* AgentID::InitGroupClient, lines 626-676
InitGroupClient ==
    /\ AgentMutexFree /\ ~agent.freed
    /\ agent' = [agent EXCEPT !.group_client_ = "up"]
    /\ UNCHANGED <<acp, online, offline, owner, reported, query>>

\* MessageClient::OnWsClose and OnWsError on the agent's message client
\* (message_client.cpp 235-252): AgentID sets no disconnect callback, the
\* agent's state_ is not touched
MessageSocketDown ==
    /\ ~agent.freed /\ agent.message_client_ = "connected"
    /\ agent' = [agent EXCEPT !.message_client_ = "disconnected"]
    /\ UNCHANGED <<acp, online, offline, owner, reported, query>>

\* MessageClient::OnWsOpen after a reconnect (message_client.cpp 221-233)
MessageSocketUp ==
    /\ ~agent.freed /\ agent.message_client_ = "disconnected"
    /\ agent' = [agent EXCEPT !.message_client_ = "connected"]
    /\ UNCHANGED <<acp, online, offline, owner, reported, query>>

\* AgentID::Offline, lines 305-311: under mutex_, return when already
\* Offline, else state_ = Offline.  The user's thread calls it at any time,
\* the owner's thread when Invalidate or the destructor gets there
OfflineBegin(t) ==
    /\ offline[t].pc \in (IF t = "user" THEN {"idle", "done"} ELSE {"begin"})
    /\ IF agent.freed
       THEN /\ \E pc \in {"done", "crashed"} :
                offline' = [offline EXCEPT ![t].pc = pc]
            /\ UNCHANGED agent
       ELSE /\ AgentMutexFree
            /\ IF agent.state_ = "Offline"
               THEN /\ offline' = [offline EXCEPT ![t].pc = "done",
                                       ![t].old_state = agent.state_]
                    /\ UNCHANGED agent
               ELSE /\ offline' = [offline EXCEPT ![t].pc = "call", ![t].i = 1,
                                       ![t].old_state = agent.state_]
                    /\ agent' = [agent EXCEPT !.state_ = "Offline"]
    /\ UNCHANGED <<acp, online, owner, reported, query>>

\* the step of Offline after sub-client i
AfterClient(i) ==
    IF i < Len(TeardownOrder) THEN [pc |-> "call", i |-> i + 1]
    ELSE [pc |-> "signature", i |-> 0]

\* AgentID::Offline, lines 316-341: if (client) the call that stops it
\* (Close, Disconnect, Offline, SignOut) begins; a null client is skipped
OfflineCall(t) ==
    /\ offline[t].pc = "call" /\ ~agent.freed
    /\ offline' = [offline EXCEPT
                     ![t].pc = IF agent[TeardownOrder[offline[t].i]] # "none"
                               THEN "reset" ELSE AfterClient(offline[t].i).pc,
                     ![t].i = IF agent[TeardownOrder[offline[t].i]] # "none"
                              THEN @ ELSE AfterClient(offline[t].i).i]
    /\ UNCHANGED <<agent, acp, online, owner, reported, query>>

\* AgentID::Offline, lines 316-341: the call has returned, client.reset()
OfflineReset(t) ==
    /\ offline[t].pc = "reset" /\ ~agent.freed
    /\ agent' = [agent EXCEPT ![TeardownOrder[offline[t].i]] = "none"]
    /\ offline' = [offline EXCEPT ![t].pc = AfterClient(offline[t].i).pc,
                                  ![t].i = AfterClient(offline[t].i).i]
    /\ UNCHANGED <<acp, online, owner, reported, query>>

\* AgentID::Offline, line 342: signature_.clear()
OfflineSignature(t) ==
    /\ offline[t].pc = "signature" /\ ~agent.freed
    /\ agent' = [agent EXCEPT !.signature_ = FALSE]
    /\ offline' = [offline EXCEPT ![t].pc = "notify"]
    /\ UNCHANGED <<acp, online, owner, reported, query>>

\* AgentID::Offline, lines 344-346: the report, with the state read at entry
OfflineNotify(t) ==
    /\ offline[t].pc = "notify" /\ ~agent.freed
    /\ reported' = <<offline[t].old_state, "Offline">>
    /\ offline' = [offline EXCEPT ![t].pc = "done"]
    /\ UNCHANGED <<agent, acp, online, owner, query>>

\* a thread inside Offline on the object the owner has deleted meanwhile
OfflineOnFreed(t) ==
    /\ offline[t].pc \in {"call", "reset", "signature", "notify"} /\ agent.freed
    /\ \E pc \in {"done", "crashed"} : offline' = [offline EXCEPT ![t].pc = pc]
    /\ UNCHANGED <<agent, acp, online, owner, reported, query>>

OwnerOps == {"DeleteAID", "Shutdown"}

\* AgentCP::DeleteAID, lines 323-337, and AgentCP::Shutdown, lines 115-118,
\* up to their call of Invalidate on the agent, which begins with Offline
OwnerBegin(op) ==
    /\ owner.pc = "idle"
    /\ IF op = "DeleteAID" /\ ~acp.initialized_
       THEN /\ owner' = [pc |-> "done", op |-> op]
            /\ UNCHANGED offline
       ELSE /\ owner' = [pc |-> "Invalidate", op |-> op]
            /\ offline' = [offline EXCEPT !["owner"].pc = "begin"]
    /\ UNCHANGED <<agent, acp, online, reported, query>>

\* AgentID::Invalidate, lines 616-619, after its Offline returned; then the
\* map drops the agent (agentcp.cpp 337, 120): ~AgentID, lines 27-31, calls
\* Offline again
Invalidate ==
    /\ owner.pc = "Invalidate" /\ offline["owner"].pc = "done"
    /\ AgentMutexFree
    /\ agent' = [agent EXCEPT !.invalidated_ = TRUE, !.state_ = "Error"]
    /\ owner' = [owner EXCEPT !.pc = "~AgentID"]
    /\ offline' = [offline EXCEPT !["owner"].pc = "begin"]
    /\ UNCHANGED <<acp, online, reported, query>>

\* ~AgentID after its Offline returned: the object is deleted, the entry is
\* gone from aids_; Shutdown then clears initialized_ (agentcp.cpp 120-121)
AgentDeleted ==
    /\ owner.pc = "~AgentID" /\ offline["owner"].pc = "done"
    /\ agent' = [agent EXCEPT !.freed = TRUE]
    /\ acp' = [acp EXCEPT !.aids_ = IF owner.op = "Shutdown" THEN {}
                                    ELSE @ \ {TheAid},
                          !.initialized_ = IF owner.op = "Shutdown" THEN FALSE ELSE @]
    /\ owner' = [owner EXCEPT !.pc = "done"]
    /\ UNCHANGED <<online, offline, reported, query>>

\* what IsValid, IsOnline and GetState can return on the deleted object
QueriesOnFreed == [valid : BOOLEAN, online : BOOLEAN, state : AgentStates,
                   freed : {TRUE}]

\* AgentID::IsValid, IsOnline, GetState, lines 349-362, through the pointer
\* CreateAID gave out
Queries ==
    /\ IF agent.freed
       THEN query' \in QueriesOnFreed
       ELSE /\ AgentMutexFree
            /\ query' = [valid |-> ~agent.invalidated_,
                         online |-> ~agent.invalidated_ /\ agent.state_ = "Online",
                         state |-> agent.state_, freed |-> FALSE]
    /\ UNCHANGED <<agent, acp, online, offline, owner, reported>>

(***************************************************************************)
(* SessionManager (session_manager.cpp) of the agent.                      *)
(*                                                                         *)
(*   sessions_  the local session map: per id whether the session exists,  *)
(*              its members_ in order (agent_id, role) and closed_         *)
(*   create     the thread in CreateSession after create_session_ack: the  *)
(*              entries of its member list that are not the caller, its    *)
(*              place in the invite loop, and wire, what the call sent and *)
(*              received in order, all_sent: so far every InviteAgent of   *)
(*              the loop found the socket connected and its SendMessage    *)
(*              returned true; idle when no call is at that point          *)
(*   lastCall   the method that returned last, its arguments and result    *)
(*                                                                         *)
(* joined_at is left out.  Every other method is one step: it sends its    *)
(* request, then works on the map and the session under their mutexes.     *)
(* The server assigns CreateSession an id no local session has.            *)
(***************************************************************************)
VARIABLES sessions_, create, lastCall

smVars == <<sessions_, create, lastCall>>

SessionIds == {"s1", "s2"}

\* the ids the server assigns in create_session_ack, and GenerateId gives
ServerIds == {"s1"}

\* the agents other than the owner of the SessionManager
OtherAids == {"bob", "carol"}

Aids == {TheAid} \cup OtherAids

\* the member lists handed to CreateSession
MemberLists == UNION {[1..n -> Aids] : n \in 0..MaxMembers}

NoSession == [exists |-> FALSE, members_ |-> <<>>, closed_ |-> FALSE]

IdleCreate == [pc |-> "idle", members |-> <<>>, k |-> 0, session_id |-> "",
               wire |-> <<>>, all_sent |-> TRUE]

NoCall == [op |-> "none", session_id |-> "", agent_id |-> "", result |-> "none"]

MethodReturned(op, session_id, agent_id, result) ==
    [op |-> op, session_id |-> session_id, agent_id |-> agent_id,
     result |-> result]

SMInit ==
    /\ sessions_ = [s \in SessionIds |-> NoSession]
    /\ create = IdleCreate
    /\ lastCall = NoCall

\* owner_->message_client_ && owner_->message_client_->IsConnected()
WsConnected == agent.message_client_ = "connected"

SessionMember(aid, role) == [agent_id |-> aid, role |-> role]

\* session_manager.cpp 65 and 82: the entries of the list that are not the
\* caller (and not empty), in order, repeats kept
NonSelf(members) == SelectSeq(members, LAMBDA m : m # TheAid)

\* CreateSession, lines 61-72 and 107-118: the owner first, then a member
\* for every entry of the list that is not the owner
MembersOf(members) ==
    <<SessionMember(TheAid, "owner")>>
    \o [i \in 1..Len(NonSelf(members)) |->
           SessionMember(NonSelf(members)[i], "member")]

\* is aid in the member list
IsMember(ms, aid) == \E i \in 1..Len(ms) : ms[i].agent_id = aid

\* std::remove_if + erase by agent id
Without(ms, aid) == SelectSeq(ms, LAMBDA m : m.agent_id # aid)

\* InviteAgent, lines 159-176: the local update, the session being there
Invited(ms, aid) ==
    IF IsMember(ms, aid) THEN ms ELSE Append(ms, SessionMember(aid, "member"))

InviteAgentReq(session_id, target) ==
    [cmd |-> "invite_agent_req", session_id |-> session_id,
     sender |-> TheAid, target |-> target]

\* CreateSession, lines 20-128, up to the session being in the map: with a
\* connected socket create_session_req goes out; when its ack comes back
\* with an id the session is stored under it and the invites follow, else
\* (not connected, no ack) it is stored under a local id and the call returns
CreateSessionStore(members, acked, id) ==
    /\ create.pc = "idle"
    /\ IF ~(~agent.freed /\ ~agent.invalidated_ /\ agent.state_ = "Online")
       THEN /\ lastCall' = MethodReturned("CreateSession", id, "",
                                                            "NOT_INITIALIZED")
            /\ UNCHANGED <<sessions_, create>>
       ELSE /\ ~sessions_[id].exists
            /\ sessions_' = [sessions_ EXCEPT ![id] =
                   [exists |-> TRUE, closed_ |-> FALSE,
                    members_ |-> MembersOf(members)]]
            /\ IF WsConnected /\ acked
               THEN /\ create' = [pc |-> "invite", members |-> NonSelf(members),
                                  k |-> 1, session_id |-> id,
                                  wire |-> <<[cmd |-> "create_session_req"],
                                             [cmd |-> "create_session_ack"]>>,
                                  all_sent |-> TRUE]
                    /\ UNCHANGED lastCall
               ELSE /\ lastCall' = MethodReturned("CreateSession", id, "",
                                                            "Ok")
                    /\ UNCHANGED create

\* the ids GenerateId("session") gives: none the server assigns
LocalIds == SessionIds \ ServerIds

\* what SendAndWaitAck can return to CreateSession: the ack with the id the
\* server assigned, an ack without a session_id, or nothing (the send
\* failed or the 10000 ms passed)
AckJsons == ServerIds \cup {"{}", ""}

\* ParseCreateSessionAck and the test of line 46: the id the ack carries
AckedId(ack_json) == IF ack_json \in ServerIds THEN ack_json ELSE ""

\* CreateSession with the local id used also when the ack brought an id
CreateSessionLocalOnly(members, ack_json) ==
    LET sid == IF WsConnected THEN AckedId(ack_json) ELSE ""
    IN \E local \in LocalIds : CreateSessionStore(members, sid # "", local)

\* CreateSession, lines 34-48 and 93-96: which id the session is stored
\* under, the server's when the socket is connected and the ack carries
\* one, else a generated one
CreateSession(members, ack_json) ==
    LET sid == IF WsConnected THEN AckedId(ack_json) ELSE ""
    IN \E local \in LocalIds :
        CreateSessionStore(members, sid # "", IF sid # "" THEN sid ELSE local)

\* CreateSession, lines 80-89: the next turn of the invite loop, a call of
\* InviteAgent for an entry that is not the owner (its request goes out
\* when the socket is connected and SendMessage succeeds), or the return
CreateSessionInvite(sent) ==
    /\ create.pc = "invite"
    /\ IF create.k > Len(create.members)
       THEN /\ create' = IdleCreate
            /\ lastCall' = MethodReturned("CreateSession", create.session_id, "",
                                                            "Ok")
            /\ UNCHANGED sessions_
       ELSE /\ create' = [create EXCEPT
                   !.k = @ + 1,
                   !.wire = IF WsConnected /\ sent
                            THEN Append(@, InviteAgentReq(create.session_id,
                                                          create.members[create.k]))
                            ELSE @,
                   !.all_sent = @ /\ WsConnected /\ sent]
            /\ sessions_' = [sessions_ EXCEPT ![create.session_id].members_ =
                                Invited(@, create.members[create.k])]
            /\ UNCHANGED lastCall

\* SessionManager::InviteAgent, lines 131-177, called on its own
InviteAgent(session_id, agent_id) ==
    /\ IF ~sessions_[session_id].exists
       THEN /\ lastCall' = MethodReturned("InviteAgent", session_id, agent_id,
                                                            "SESSION_NOT_FOUND")
            /\ UNCHANGED sessions_
       ELSE /\ lastCall' = MethodReturned("InviteAgent", session_id, agent_id,
                                                            "Ok")
            /\ sessions_' = [sessions_ EXCEPT ![session_id].members_ =
                                Invited(@, agent_id)]
    /\ UNCHANGED create

\* SessionManager::JoinSession, lines 179-210: a session that is not in the
\* map is made, with the agent as its one member
JoinSession(session_id) ==
    /\ lastCall' = MethodReturned("JoinSession", session_id, "",
                                                            "Ok")
    /\ sessions_' = IF sessions_[session_id].exists THEN sessions_
                    ELSE [sessions_ EXCEPT ![session_id] =
                            [exists |-> TRUE, closed_ |-> FALSE,
                             members_ |-> <<SessionMember(TheAid, "member")>>]]
    /\ UNCHANGED create

\* SessionManager::LeaveSession, lines 212-241
LeaveSession(session_id) ==
    /\ IF ~sessions_[session_id].exists
       THEN /\ lastCall' = MethodReturned("LeaveSession", session_id, "",
                                                            "SESSION_NOT_FOUND")
            /\ UNCHANGED sessions_
       ELSE /\ lastCall' = MethodReturned("LeaveSession", session_id, "",
                                                            "Ok")
            /\ sessions_' = [sessions_ EXCEPT ![session_id].members_ =
                                Without(@, TheAid)]
    /\ UNCHANGED create

\* a CloseSession that would clear the member list of the session it closes
CloseSessionClearing(session_id) ==
    /\ IF ~sessions_[session_id].exists
       THEN /\ lastCall' = MethodReturned("CloseSession", session_id, "",
                                          "SESSION_NOT_FOUND")
            /\ UNCHANGED sessions_
       ELSE /\ lastCall' = MethodReturned("CloseSession", session_id, "", "Ok")
            /\ sessions_' = [sessions_ EXCEPT ![session_id].closed_ = TRUE,
                                              ![session_id].members_ = <<>>]
    /\ UNCHANGED create

\* SessionManager::CloseSession, lines 243-268
CloseSession(session_id) ==
    /\ IF ~sessions_[session_id].exists
       THEN /\ lastCall' = MethodReturned("CloseSession", session_id, "",
                                                            "SESSION_NOT_FOUND")
            /\ UNCHANGED sessions_
       ELSE /\ lastCall' = MethodReturned("CloseSession", session_id, "",
                                                            "Ok")
            /\ sessions_' = [sessions_ EXCEPT ![session_id].closed_ = TRUE]
    /\ UNCHANGED create

\* SessionManager::EjectAgent, lines 297-324
EjectAgent(session_id, agent_id) ==
    /\ IF ~sessions_[session_id].exists
       THEN /\ lastCall' = MethodReturned("EjectAgent", session_id, agent_id,
                                                            "SESSION_NOT_FOUND")
            /\ UNCHANGED sessions_
       ELSE /\ lastCall' = MethodReturned("EjectAgent", session_id, agent_id,
                                                            "Ok")
            /\ sessions_' = [sessions_ EXCEPT ![session_id].members_ =
                                Without(@, agent_id)]
    /\ UNCHANGED create

\* SessionManager::GetMemberList, lines 270-295
GetMemberList(session_id) ==
    /\ lastCall' = MethodReturned("GetMemberList", session_id, "",
                                  IF sessions_[session_id].exists THEN "Ok"
                                  ELSE "SESSION_NOT_FOUND")
    /\ UNCHANGED <<sessions_, create>>

SendResults == {"Ok", "NOT_INITIALIZED", "WS_DISCONNECTED", "WS_TIMEOUT",
                "STREAM_NOT_CONNECTED"}

\* what AgentID::SendMessage and AgentID::CreateStream (agentid.cpp 412-476,
\* 527-575) can return for a session that is open
OwnerSendResults(method) ==
    IF ~(~agent.freed /\ ~agent.invalidated_ /\ agent.state_ = "Online")
    THEN {"NOT_INITIALIZED"}
    ELSE IF ~WsConnected THEN {"WS_DISCONNECTED"}
    ELSE IF method = "CreateStream"
    THEN {"Ok", "WS_TIMEOUT", "STREAM_NOT_CONNECTED"}
    ELSE {"Ok", "WS_DISCONNECTED"}

\* Session::SendMessage and Session::CreateStream, session.cpp 29-69, on the
\* Session that GetSession(session_id) gave
SessionSend(session_id, method, r) ==
    /\ sessions_[session_id].exists
    /\ IF sessions_[session_id].closed_
       THEN lastCall' = MethodReturned(method, session_id, "", "SESSION_CLOSED")
       ELSE /\ r \in OwnerSendResults(method)
            /\ lastCall' = MethodReturned(method, session_id, "", r)
    /\ UNCHANGED <<sessions_, create>>

(***************************************************************************)
(* The inbound path of group messages: the message handler AgentID::Online *)
(* gives its message client (agentid.cpp 218-286), HandleGroupMessage      *)
(* (697-724), and the part of ACPGroupClient::HandleIncoming               *)
(* (group/group_client.cpp 166-296) that calls the event handler.          *)
(*                                                                         *)
(*   handler_                the group client has an event handler         *)
(*   agent_message_handler_  message_handler_ of the AgentID is set        *)
(*   routed                  the frame the message handler ran on last:    *)
(*                           fed, its message went into HandleIncoming;    *)
(*                           decoded, its message went through UrlDecode;  *)
(*                           delivered, message_handler_ was called        *)
(*   calls                   the payload HandleIncoming got from that      *)
(*                           frame and the methods of the event handler it *)
(*                           called, in order, each with whether           *)
(*                           pending_mutex_ was held; answered, it was the *)
(*                           response of a pending request; handler, there *)
(*                           was an event handler                          *)
(***************************************************************************)
VARIABLES handler_, agent_message_handler_, routed, calls

inVars == <<handler_, agent_message_handler_, routed, calls>>

\* group_target_aid_ as InitGroupClient set it
GroupTarget == "group.ap"

\* the senders of inbound frames
Senders == {GroupTarget, "bob"}

\* group_types.h 336-344: an event DispatchAcpNotify knows whose method is
\* not OnGroupMessage, NOTIFY_GROUP_MESSAGE, and one it does not know
NotifyEvents == {"new_message", "group_message", "other"}

PushActions == {"message_push", "message_batch_push"}

\* a request_id no request of this client has
StrayId == <<2, MaxReq + 1>>

\* the JSON objects HandleIncoming may get: request_id (NoId: none), event
\* ("": none), action ("": another action), data (present and not null).
\* HandleIncoming does not read action and data of an object with an event.
InObjects(ids) ==
    {m \in [json : {"object"}, request_id : ids,
            event : {""} \cup NotifyEvents,
            action : {""} \cup PushActions, data : BOOLEAN] :
        /\ m.event # "" => m.action = "" /\ ~m.data
        /\ m.action = "" => ~m.data}

\* the message field of a frame: missing, the empty string, text that is no
\* JSON, JSON that is no object (an array, a number), or an object
InMessages(ids) ==
    {[json |-> k] : k \in {"missing", "empty", "unparsable", "nonobject"}}
    \cup InObjects(ids)

\* an inbound frame as the message handler gets it: cmd and data_json, of
\* which parsed tells whether json::parse takes it
InFrames(ids) ==
    [cmd : {"session_message", "system_message"}, parsed : BOOLEAN,
     sender : Senders, message : InMessages(ids)]

NoRouted == [cmd |-> "", sender |-> "", message |-> "missing",
             group_client_ |-> FALSE, fed |-> FALSE, decoded |-> FALSE,
             delivered |-> FALSE]

NoCalls == [action |-> "", event |-> "", data |-> FALSE, answered |-> FALSE,
            handler |-> FALSE, methods |-> <<>>]

INInit ==
    /\ handler_ \in BOOLEAN
    /\ agent_message_handler_ \in BOOLEAN
    /\ routed = NoRouted
    /\ calls = NoCalls

\* ACPGroupClient::SetEventHandler, AgentID::SetMessageHandler
SetEventHandler(h) ==
    /\ handler_' = h
    /\ UNCHANGED <<agent_message_handler_, routed, calls>>

SetMessageHandler(h) ==
    /\ agent_message_handler_' = h
    /\ UNCHANGED <<handler_, routed, calls>>

\* DispatchAcpNotify, group_events.cpp 44-97: the method called for the
\* event of a notification, none for an event it does not know
DispatchAcpNotify(event, locked) ==
    IF event = "new_message"
    THEN <<[method |-> "OnNewMessage", locked |-> locked]>>
    ELSE IF event = "group_message"
    THEN <<[method |-> "OnGroupMessage", locked |-> locked]>>
    ELSE <<>>

\* HandleIncoming throws: value() on JSON that is no object is outside its
\* try blocks (lines 177, 202, 217)
HandleIncomingThrows(m) == m.json = "nonobject"

\* the pending entry HandleIncoming finds for the payload, lines 180-183
Answers(m) == m.json = "object" /\ m.request_id # NoId
              /\ pending_reqs_[m.request_id] # NoCaller

\* HandleIncoming, lines 166-296: the calls of the event handler.  For a
\* response that carries an event the dispatch is inside the scope of the
\* lock_guard on pending_mutex_ (lines 180-197).
HandlerCalls(m) ==
    IF m.json # "object" THEN <<>>
    ELSE IF Answers(m)
    THEN (IF m.event # "" /\ handler_ THEN DispatchAcpNotify(m.event, TRUE)
          ELSE <<>>)
    ELSE IF m.event # ""
    THEN (IF handler_ THEN DispatchAcpNotify(m.event, FALSE) ELSE <<>>)
    ELSE IF m.action = "message_push" /\ m.data
    THEN (IF handler_
          THEN <<[method |-> "OnGroupMessage", locked |-> FALSE]>>
               \o DispatchAcpNotify("group_message", FALSE)
          ELSE <<>>)
    ELSE IF m.action = "message_batch_push" /\ m.data
    THEN (IF handler_
          THEN <<[method |-> "OnGroupMessageBatch", locked |-> FALSE]>>
          ELSE <<>>)
    ELSE <<>>

\* HandleGroupMessage, agentid.cpp 697-724: the frame's message goes into
\* HandleIncoming
Fed(f) ==
    /\ f.cmd = "session_message" /\ agent.group_client_ = "up"
    /\ f.parsed
    /\ f.sender = GroupTarget
    /\ f.message.json \notin {"missing", "empty"}

\* its result: true when HandleIncoming came back, false when it threw
HandleGroupMessage(f) == Fed(f) /\ ~HandleIncomingThrows(f.message)

\* the handler's session_message branch, agentid.cpp 227-279, is entered
SessionBranch(f) ==
    ~HandleGroupMessage(f) /\ f.cmd = "session_message"
    /\ agent_message_handler_ /\ f.parsed

\* lines 243-246: UrlDecode of the message field, when there is one
Decoded(f) == SessionBranch(f) /\ f.message.json # "missing"

\* lines 274-276: message_handler_(msg) is reached when nothing threw:
\* json::parse of the decoded text (line 246) throws on what is no JSON
Delivered(f) ==
    SessionBranch(f) /\ f.message.json \notin {"empty", "unparsable"}

\* the message handler of the message client, on one frame; code is the
\* response code of a payload that answers a pending request
MessageHandler(f, code) ==
    /\ ~agent.freed
    /\ routed' = [cmd |-> f.cmd, sender |-> IF f.parsed THEN f.sender ELSE "",
                  message |-> IF f.parsed THEN f.message.json ELSE "missing",
                  group_client_ |-> agent.group_client_ = "up",
                  fed |-> Fed(f), decoded |-> Decoded(f),
                  delivered |-> Delivered(f)]
    /\ calls' = IF Fed(f) /\ f.message.json = "object"
                THEN [action |-> f.message.action,
                      event |-> f.message.event,
                      data |-> f.message.data,
                      answered |-> Answers(f.message),
                      handler |-> handler_,
                      methods |-> HandlerCalls(f.message)]
                ELSE NoCalls
    /\ IF Fed(f) /\ Answers(f.message)
       THEN HandleIncoming([request_id |-> f.message.request_id, code |-> code])
       ELSE code = 0 /\ UNCHANGED gcVars
    /\ UNCHANGED <<handler_, agent_message_handler_>>

(***************************************************************************)
(* HeartbeatClient (client/heartbeat_client.cpp).  The UDP heartbeat of an *)
(* agent that is Online: SendHeartbeatLoop on one thread, ReceiveLoop on   *)
(* another, mutex_ around server_ip_, port_, sign_cookie_ and              *)
(* heartbeat_interval_ms_.  A sign-in is named by its number: the n-th     *)
(* sign-in of the auth client yields address n and cookie n.               *)
(*   server_ip_     the address (server_ip_ and port_) the client holds    *)
(*   sign_cookie_   the cookie the client holds                            *)
(*   heartbeat_interval_ms_                                                *)
(*   signed         the auth client's last successful sign-in              *)
(*   expired        the heartbeat server no longer accepts that sign-in    *)
(*   sendLoop       SendHeartbeatLoop: its position and its locals         *)
(*   receiveLoop    ReceiveLoop: its position                              *)
(*   request        the heartbeat request on its way to the server         *)
(*   next_beat      the heartbeat response on its way to the client, 0 if  *)
(*                  there is none                                          *)
(***************************************************************************)
VARIABLES server_ip_, sign_cookie_, heartbeat_interval_ms_, signed, expired,
          sendLoop, receiveLoop, request, next_beat

hbVars == <<server_ip_, sign_cookie_, heartbeat_interval_ms_, signed, expired,
            sendLoop, receiveLoop, request, next_beat>>

\* the sign-ins of one run
MaxSignIns == 3

\* next_beat of a response that asks for a new sign-in
ReauthCode == 401

\* the smallest interval the client adopts
MinIntervalMs == 5000

\* the intervals a server answers with: one below the minimum, one above
ServerIntervals == {3000, 6000}

NoRequest == [ip |-> 0, cookie |-> 0]

SendTop == [pc |-> "top", interval |-> 0, ip |-> 0, cookie |-> 0]

\* after Initialize and Online: the first sign-in is adopted, both loops run
HBInit ==
    /\ server_ip_ = 1
    /\ sign_cookie_ = 1
    /\ heartbeat_interval_ms_ = MinIntervalMs
    /\ signed = 1
    /\ expired = FALSE
    /\ sendLoop = SendTop
    /\ receiveLoop = "recv"
    /\ request = NoRequest
    /\ next_beat = 0

\* SendHeartbeatLoop, a heartbeat is due: the locals are copied under mutex_
SendLoopRead ==
    /\ sendLoop.pc = "top"
    /\ sendLoop' = [pc |-> "send", interval |-> heartbeat_interval_ms_,
                    ip |-> server_ip_, cookie |-> sign_cookie_]
    /\ UNCHANGED <<server_ip_, sign_cookie_, heartbeat_interval_ms_, signed,
                   expired, receiveLoop, request, next_beat>>

\* SendHeartbeatLoop: the request is built from the locals and sent, outside
\* mutex_
SendLoopSend ==
    /\ sendLoop.pc = "send"
    /\ request' = [ip |-> sendLoop.ip, cookie |-> sendLoop.cookie]
    /\ sendLoop' = SendTop
    /\ UNCHANGED <<server_ip_, sign_cookie_, heartbeat_interval_ms_, signed,
                   expired, receiveLoop, next_beat>>

\* the heartbeat server drops a sign-in
ServerExpires ==
    /\ ~expired
    /\ signed < MaxSignIns
    /\ expired' = TRUE
    /\ UNCHANGED <<server_ip_, sign_cookie_, heartbeat_interval_ms_, signed,
                   sendLoop, receiveLoop, request, next_beat>>

\* the server answers a request: 401 unless it carries the cookie of the
\* sign-in the server accepts and went to that sign-in's address
ServerAnswers(interval) ==
    /\ request # NoRequest
    /\ request' = NoRequest
    /\ next_beat' = IF ~expired /\ request.cookie = signed /\ request.ip = signed
                    THEN interval
                    ELSE ReauthCode
    /\ UNCHANGED <<server_ip_, sign_cookie_, heartbeat_interval_ms_, signed,
                   expired, sendLoop, receiveLoop>>

\* ReceiveLoop, HEARTBEAT_RESP: 401 calls Reauthenticate, any other value is
\* the new interval, at least the minimum
ReceiveLoopResp ==
    /\ receiveLoop = "recv"
    /\ next_beat # 0
    /\ next_beat' = 0
    /\ IF next_beat = ReauthCode
       THEN /\ receiveLoop' = "SignIn"
            /\ UNCHANGED heartbeat_interval_ms_
       ELSE /\ heartbeat_interval_ms_' =
                    IF next_beat < MinIntervalMs THEN MinIntervalMs ELSE next_beat
            /\ UNCHANGED receiveLoop
    /\ UNCHANGED <<server_ip_, sign_cookie_, signed, expired, sendLoop, request>>

\* Reauthenticate: auth_client_->SignIn(); a failure returns
ReauthenticateSignIn(ok) ==
    /\ receiveLoop = "SignIn"
    /\ IF ok /\ signed < MaxSignIns
       THEN /\ signed' = signed + 1
            /\ expired' = FALSE
            /\ receiveLoop' = "adopt"
       ELSE /\ ~ok
            /\ receiveLoop' = "recv"
            /\ UNCHANGED <<signed, expired>>
    /\ UNCHANGED <<server_ip_, sign_cookie_, heartbeat_interval_ms_, sendLoop,
                   request, next_beat>>

\* Reauthenticate: under mutex_ the address and the cookie of the sign-in
\* are stored
Reauthenticate ==
    /\ receiveLoop = "adopt"
    /\ server_ip_' = signed
    /\ sign_cookie_' = signed
    /\ receiveLoop' = "recv"
    /\ UNCHANGED <<heartbeat_interval_ms_, signed, expired, sendLoop, request,
                   next_beat>>

(***************************************************************************)
(* HeartbeatClient::ReceiveLoop, INVITE_REQ (client/heartbeat_client.cpp). *)
(* AgentID::Online starts the loops with heartbeat_client_->Online() and   *)
(* registers the invite callback after it.                                 *)
(*   invite_callback_   whether SetInviteCallback has stored the callback  *)
(*   inviteReq          the invite request on its way to the client        *)
(*   invite             ReceiveLoop's handling of the request it took last:*)
(*                      invite_req, whether a callback was registered when *)
(*                      it was taken, the calls of the callback and the    *)
(*                      responses sent for it, resp the last of them       *)
(***************************************************************************)
VARIABLES invite_callback_, inviteReq, invite

ivVars == <<invite_callback_, inviteReq, invite>>

\* the agents that invite
Inviters == {"bob", "carol"}

NoInvite == [inviter_agent_id |-> "", session_id |-> ""]

InviteReqs == [inviter_agent_id : Inviters, session_id : SessionIds]

NoInviteResp == [agent_id |-> "", inviter_agent_id |-> "", session_id |-> "",
                 sign_cookie |-> 0]

NoInviteHandled == [invite_req |-> NoInvite, registered |-> FALSE, called |-> 0,
                    sent |-> 0, resp |-> NoInviteResp]

\* heartbeat_client_->Online() has returned, SetInviteCallback is to come
IVInit ==
    /\ invite_callback_ = FALSE
    /\ inviteReq = NoInvite
    /\ invite = NoInviteHandled

\* AgentID::Online, after the heartbeat has started
SetInviteCallback ==
    /\ ~invite_callback_
    /\ invite_callback_' = TRUE
    /\ UNCHANGED <<inviteReq, invite>>

\* the heartbeat server sends an invite request
ServerInvites(r) ==
    /\ inviteReq = NoInvite
    /\ inviteReq' = r
    /\ UNCHANGED <<invite_callback_, invite>>

\* ReceiveLoop, INVITE_REQ: the datagram is deserialized
ReceiveLoopInvite ==
    /\ receiveLoop = "recv"
    /\ inviteReq # NoInvite
    /\ inviteReq' = NoInvite
    /\ invite' = [NoInviteHandled EXCEPT !.invite_req = inviteReq,
                                         !.registered = invite_callback_]
    /\ receiveLoop' = "callback"
    /\ UNCHANGED invite_callback_

\* ReceiveLoop: invite_callback_, if there is one, is called; what it throws
\* is caught by the loop's catch (...), which goes on to the next datagram
ReceiveLoopCallback(throws) ==
    /\ receiveLoop = "callback"
    /\ IF invite_callback_
       THEN /\ invite' = [invite EXCEPT !.called = @ + 1]
            /\ receiveLoop' = IF throws THEN "recv" ELSE "respond"
       ELSE /\ ~throws
            /\ receiveLoop' = "respond"
            /\ UNCHANGED invite
    /\ UNCHANGED <<invite_callback_, inviteReq>>

\* the response ReceiveLoop builds: agent_id, inviter_agent_id and
\* sign_cookie are assigned, session_id keeps the empty string of its
\* construction
InviteResp(invite_req, cookie) ==
    [agent_id |-> TheAid, inviter_agent_id |-> invite_req.inviter_agent_id,
     session_id |-> "", sign_cookie |-> cookie]

\* ReceiveLoop: the response is built with the cookie read under mutex_ and
\* sent if the socket is still valid
ReceiveLoopRespond(valid) ==
    /\ receiveLoop = "respond"
    /\ invite' = IF valid
                 THEN [invite EXCEPT !.sent = @ + 1,
                                     !.resp = InviteResp(invite.invite_req, sign_cookie_)]
                 ELSE invite
    /\ receiveLoop' = "recv"
    /\ UNCHANGED <<invite_callback_, inviteReq>>

\* what the invite steps leave alone in the heartbeat client
InviteKeeps ==
    UNCHANGED <<server_ip_, sign_cookie_, heartbeat_interval_ms_, signed, expired,
                sendLoop, request, next_beat>>

(***************************************************************************)
(* AuthClient::SignIn (client/auth_client.cpp).  One call at a time: the   *)
(* challenge POST, the signing of the nonce, the proof POST, all inside    *)
(* for (retry = 0; retry <= max_retries; ++retry) and a try block.         *)
(* HttpClient::PostJson (net/http_client.cpp) connects, sends the request  *)
(* and reads with RecvAll until the server closes the connection; the      *)
(* timeout_seconds_ of the client is not applied to the socket.            *)
(*   signIn   the call: its position, max_retries, retry, the challenge    *)
(*            and proof requests sent and the 6 s pauses taken so far,     *)
(*            the kind of the failure met last, the value returned         *)
(***************************************************************************)
VARIABLES signIn

siVars == <<signIn>>

\* the largest max_retries a call is made with
MaxRetries == 3

NoSignIn == [pc |-> "idle", max_retries |-> 0, retry |-> 0, challenges |-> 0,
             proofs |-> 0, sleeps |-> 0, failure |-> "none", result |-> FALSE]

SIInit == signIn = NoSignIn

\* what RecvAll's return comes to: the request failed (a status outside
\* 200..299, or an exception), the body does not parse, or it parses
ChallengeResults == {"transport", "unparseable", "empty", "signature", "nonce"}

ProofResults == {"transport", "unparseable", "ok"}

\* the signing of the nonce: done, or the key, the certificate or the
\* signature could not be had
SigningResults == {"ok", "key", "cert", "sign"}

SignInBegin(max_retries) ==
    /\ signIn.pc \in {"idle", "returned"}
    /\ signIn' = [NoSignIn EXCEPT !.pc = "challenge", !.max_retries = max_retries]

\* lines 146-154 and 228-236, 268-274: a failed request is tried again
\* after a pause while retry < max_retries
SignInTransport ==
    IF signIn.retry < signIn.max_retries
    THEN [signIn EXCEPT !.pc = "sleep", !.failure = "transport"]
    ELSE [signIn EXCEPT !.pc = "returned", !.failure = "transport",
                        !.result = FALSE]

\* return false on a failure of the protocol
SignInAbort == [signIn EXCEPT !.pc = "returned", !.failure = "protocol",
                              !.result = FALSE]

\* PostJson of step 1 or step 2, up to RecvAll: a connection or a send that
\* fails returns status 0 at once, otherwise the call waits in recv
SignInPost(connected) ==
    /\ signIn.pc \in {"challenge", "proof"}
    /\ LET sent == IF signIn.pc = "challenge"
                   THEN [signIn EXCEPT !.challenges = @ + 1]
                   ELSE [signIn EXCEPT !.proofs = @ + 1]
       IN signIn' =
            IF connected
            THEN [sent EXCEPT !.pc = IF signIn.pc = "challenge"
                                     THEN "recvChallenge" ELSE "recvProof"]
            ELSE [SignInTransport EXCEPT !.challenges = sent.challenges,
                                         !.proofs = sent.proofs]

\* Step 1: the server has closed the connection, the response is examined
SignInChallenge(r) ==
    /\ signIn.pc = "recvChallenge"
    /\ signIn' = CASE r = "transport" -> SignInTransport
                   [] r \in {"unparseable", "empty"} -> SignInAbort
                   [] r = "signature" ->
                        [signIn EXCEPT !.pc = "returned", !.result = TRUE]
                   [] r = "nonce" -> [signIn EXCEPT !.pc = "sign"]

\* the private key and the certificate are loaded and the nonce is signed
SignInSign(r) ==
    /\ signIn.pc = "sign"
    /\ signIn' = IF r = "ok" THEN [signIn EXCEPT !.pc = "proof"] ELSE SignInAbort

\* Step 2: the server has closed the connection, the response is examined
SignInProof(r) ==
    /\ signIn.pc = "recvProof"
    /\ signIn' = CASE r = "transport" -> SignInTransport
                   [] r = "unparseable" -> SignInAbort
                   [] r = "ok" -> [signIn EXCEPT !.pc = "returned", !.result = TRUE]

\* sleep_for(6 s); continue: ++retry, and the loop starts over at step 1
SignInSleep ==
    /\ signIn.pc = "sleep"
    /\ signIn' = [signIn EXCEPT !.pc = "challenge", !.retry = @ + 1,
                                !.sleeps = @ + 1]

(***************************************************************************)
(* GroupOperations::ParseGroupUrl (group/group_operations.cpp).  A string  *)
(* is a sequence of characters; find gives a 0-based position or npos.     *)
(*   group_url   the argument                                              *)
(*   parsed      what the call ended with, NotParsed before the call       *)
(***************************************************************************)
VARIABLES group_url, parsed

puVars == <<group_url, parsed>>

\* the characters of a URL: the separators and one other character
Chars == {":", "/", "?", "#", "a"}

\* the longest tail of a URL after its beginning
MaxTail == 5

npos == -1

NotParsed == [kind |-> "none", target_aid |-> <<>>, group_id |-> <<>>]

UrlError == [kind |-> "throw", target_aid |-> <<>>, group_id |-> <<>>]

\* std::string::substr(pos)
SubstrFrom(s, pos) == SubSeq(s, pos + 1, Len(s))

\* std::string::substr(0, n)
SubstrTo(s, n) == SubSeq(s, 1, n)

\* std::string::find(pat)
Find(s, pat) ==
    LET hits == {i \in 0..(Len(s) - Len(pat)) :
                    SubSeq(s, i + 1, i + Len(pat)) = pat}
    IN IF hits = {} THEN npos ELSE CHOOSE i \in hits : \A j \in hits : i <= j

\* while (!path.empty() && path.back() == '/') path.pop_back()
RECURSIVE StripTrailingSlashes(_)
StripTrailingSlashes(path) ==
    IF path # <<>> /\ path[Len(path)] = "/"
    THEN StripTrailingSlashes(SubstrTo(path, Len(path) - 1))
    ELSE path

\* the path without its query and its fragment
StripQuery(path, c) ==
    IF Find(path, <<c>>) # npos THEN SubstrTo(path, Find(path, <<c>>)) ELSE path

ParseGroupUrl(url) ==
    LET scheme_end == Find(url, <<":", "/", "/">>)
        rest == SubstrFrom(url, scheme_end + 3)
        slash_pos == Find(rest, <<"/">>)
        host == SubstrTo(rest, slash_pos)
        path == StripTrailingSlashes(
                    StripQuery(StripQuery(SubstrFrom(rest, slash_pos + 1), "?"), "#"))
    IN IF scheme_end = npos THEN UrlError
       ELSE IF slash_pos = npos \/ slash_pos = 0 THEN UrlError
       ELSE IF host = <<>> \/ path = <<>> THEN UrlError
       ELSE [kind |-> "return", target_aid |-> host, group_id |-> path]

\* the strings of at most n characters
RECURSIVE Strings(_)
Strings(n) ==
    IF n = 0 THEN {<<>>}
    ELSE Strings(n - 1) \cup
         {Append(s, c) : s \in {t \in Strings(n - 1) : Len(t) = n - 1}, c \in Chars}

\* what a URL begins with: nothing, the separator alone, a scheme and the
\* separator
Beginnings == {<<>>, <<":", "/", "/">>, <<"a", ":", "/", "/">>}

Urls == {b \o t : b \in Beginnings, t \in Strings(MaxTail)}

PUInit ==
    /\ group_url \in Urls
    /\ parsed = NotParsed

PUQuiet ==
    /\ group_url = <<>>
    /\ parsed = NotParsed

\* one call of ParseGroupUrl
ParseGroupUrlCall ==
    /\ parsed = NotParsed
    /\ parsed' = ParseGroupUrl(group_url)
    /\ UNCHANGED group_url

(***************************************************************************)
(* MessageClient::StartReconnectLoopIfNeeded step by step                  *)
(* (client/message_client.cpp 291-304), for the threads that can be in it  *)
(* together: the socket's thread in OnWsClose or OnWsError, and the thread *)
(* that called Connect.  reconnect_loop_running_ is atomic;                *)
(* reconnect_thread_ is a plain std::thread member no mutex guards.        *)
(*   starter   for each thread its position in StartReconnectLoopIfNeeded: *)
(*             "idle" (not in it), "check" (line 296, about to read        *)
(*             reconnect_thread_.joinable()), "join" (line 297), "cas"     *)
(*             (line 301), "assign" (line 302, about to move a new thread  *)
(*             into reconnect_thread_), "threw" (join() of a thread that   *)
(*             is not joinable), "terminate" (a thread moved into a        *)
(*             joinable std::thread)                                       *)
(***************************************************************************)
VARIABLES starter

rsVars == <<starter>>

Starters == {"socket", "Connect"}

RSInit == starter = [c \in Starters |-> "idle"]

\* the caller `c` enters StartReconnectLoopIfNeeded
StartCalled(c) ==
    /\ starter[c] = "idle"
    /\ starter' = [starter EXCEPT ![c] = "check"]

\* MessageClient::OnWsClose on the socket's thread, up to the call in line 244
OnWsCloseCalls ==
    /\ ws_.exists /\ ws_.phase = "open"
    /\ ws_' = [ws_ EXCEPT !.connected = FALSE, !.phase = "closed"]
    /\ state_' = "Disconnected"
    /\ StartCalled("socket")
    /\ UNCHANGED <<shutdown_requested_, reconnect_loop_running_, auto_reconnect,
                   reconnect_thread_, current_reconnect_interval_,
                   reconnect_attempt_count_, message_handler_, message_queue_,
                   ack_waiters_, ack, connectPc, disconnectPc, wire, lastFrame,
                   sender>>

\* MessageClient::OnWsError on the socket's thread, up to the call in line 251
OnWsErrorCalls ==
    /\ ws_.exists /\ ws_.phase = "connecting"
    /\ ws_' = [ws_ EXCEPT !.connected = FALSE, !.phase = "closed"]
    /\ state_' = "Disconnected"
    /\ StartCalled("socket")
    /\ UNCHANGED <<shutdown_requested_, reconnect_loop_running_, auto_reconnect,
                   reconnect_thread_, current_reconnect_interval_,
                   reconnect_attempt_count_, message_handler_, message_queue_,
                   ack_waiters_, ack, connectPc, disconnectPc, wire, lastFrame,
                   sender>>

\* MessageClient::Connect, lines 64-71: ws_->Connect returned; a failure
\* goes on to the call in line 68
ConnectReturnCalls ==
    /\ connectPc = "connect"
    /\ connectPc' = "done"
    /\ \E ok \in WsConnectResults("Connect") :
        IF ok
        THEN UNCHANGED <<state_, starter>>
        ELSE /\ state_' = "Disconnected"
             /\ StartCalled("Connect")
    /\ UNCHANGED <<shutdown_requested_, reconnect_loop_running_, auto_reconnect,
                   ws_, reconnect_thread_, current_reconnect_interval_,
                   reconnect_attempt_count_, message_handler_, message_queue_,
                   ack_waiters_, ack, disconnectPc, wire, lastFrame, sender>>

\* lines 292-296: the early return, then joinable() && !running
StartReconnectCheck(c) ==
    /\ starter[c] = "check"
    /\ starter' = [starter EXCEPT ![c] =
                     IF ~auto_reconnect \/ shutdown_requested_ THEN "idle"
                     ELSE IF reconnect_thread_ # "none" /\ ~reconnect_loop_running_
                     THEN "join"
                     ELSE "cas"]
    /\ UNCHANGED mcVars

\* line 297: join() returns once the loop's thread has finished, and throws
\* when another thread joined it first
StartReconnectJoin(c) ==
    /\ starter[c] = "join"
    /\ reconnect_thread_ \in {"finished", "none"}
    /\ starter' = [starter EXCEPT ![c] =
                     IF reconnect_thread_ = "none" THEN "threw" ELSE "cas"]
    /\ reconnect_thread_' = "none"
    /\ UNCHANGED <<state_, shutdown_requested_, reconnect_loop_running_,
                   auto_reconnect, ws_, current_reconnect_interval_,
                   reconnect_attempt_count_, message_handler_, message_queue_,
                   ack_waiters_, ack, connectPc, disconnectPc, wire, lastFrame,
                   sender>>

\* lines 300-301: compare_exchange_strong(false, true)
StartReconnectCas(c) ==
    /\ starter[c] = "cas"
    /\ starter' = [starter EXCEPT ![c] =
                     IF reconnect_loop_running_ THEN "idle" ELSE "assign"]
    /\ reconnect_loop_running_' = TRUE
    /\ UNCHANGED <<state_, shutdown_requested_, auto_reconnect, ws_,
                   reconnect_thread_, current_reconnect_interval_,
                   reconnect_attempt_count_, message_handler_, message_queue_,
                   ack_waiters_, ack, connectPc, disconnectPc, wire, lastFrame,
                   sender>>

\* line 302: the new thread is moved into reconnect_thread_; std::thread's
\* move assignment calls std::terminate when the target is joinable
StartReconnectAssign(c) ==
    /\ starter[c] = "assign"
    /\ IF reconnect_thread_ = "none"
       THEN /\ reconnect_thread_' = "top"
            /\ starter' = [starter EXCEPT ![c] = "idle"]
       ELSE /\ starter' = [starter EXCEPT ![c] = "terminate"]
            /\ UNCHANGED reconnect_thread_
    /\ UNCHANGED <<state_, shutdown_requested_, reconnect_loop_running_,
                   auto_reconnect, ws_, current_reconnect_interval_,
                   reconnect_attempt_count_, message_handler_, message_queue_,
                   ack_waiters_, ack, connectPc, disconnectPc, wire, lastFrame,
                   sender>>

(***************************************************************************)
(* The two mutexes of Online against DeleteAID and Shutdown (agentid.cpp,  *)
(* agentcp.cpp).                                                           *)
(*                                                                         *)
(*   mutex_   for AgentID::mutex_ and AgentCP::mutex_ the thread that      *)
(*            holds it across steps, "none" when no thread does            *)
(*   creating the thread in AgentCP::CreateAID: where it is, the aid it    *)
(*            was called with, what it returned                            *)
(*                                                                         *)
(* Online holds AgentID::mutex_ from line 35 to its return and calls       *)
(* IsInitialized, GetAPBase and GetStoragePath of the owner meanwhile,     *)
(* each of which locks AgentCP::mutex_.  DeleteAID and Shutdown hold       *)
(* AgentCP::mutex_ from their lock_guard to their return and call          *)
(* Invalidate meanwhile, which locks AgentID::mutex_ in Offline and again  *)
(* at line 617.  std::mutex is not recursive and a lock waits.             *)
(***************************************************************************)
VARIABLES mutex_, creating

lkVars == <<mutex_, creating>>

OtherAid == "bob"

LKInit ==
    /\ mutex_ = [AgentID |-> "none", AgentCP |-> "none"]
    /\ creating = [pc |-> "idle", aid |-> TheAid, result |-> "none"]

\* the lock_guard of Online is destroyed when Online returns
AfterOnlineStep ==
    mutex_' = [mutex_ EXCEPT
                 !.AgentID = IF online'.pc \in {"done", "crashed"}
                             THEN "none" ELSE @]

\* AgentID::Online, line 35: std::lock_guard<std::mutex> lock(mutex_)
OnlineLock ==
    /\ online.pc \in {"idle", "done"}
    /\ mutex_.AgentID = "none"
    /\ mutex_' = [mutex_ EXCEPT !.AgentID = "online"]
    /\ UNCHANGED <<agVars, creating>>

\* the thread in Online stands before a call that locks AgentCP::mutex_:
\* IsInitialized at line 40 (not reached by an invalidated agent), or
\* GetAPBase at line 57
OnlineNeedsOwner ==
    \/ online.pc \in {"idle", "done"} /\ ~agent.invalidated_
    \/ online.pc = "config"

\* AgentID::Online, lines 36-54, with owner_->IsInitialized() of line 40
\* (agentcp.cpp 104-107) waiting for AgentCP::mutex_
OnlineLocked ==
    /\ mutex_.AgentID = "online"
    /\ agent.freed \/ ~OnlineNeedsOwner \/ mutex_.AgentCP = "none"
    /\ OnlineBegin
    /\ AfterOnlineStep

\* AgentID::Online, lines 56-81, with owner_->GetAPBase() and
\* owner_->GetStoragePath() (agentcp.cpp 379-392) waiting for AgentCP::mutex_
OnlineConfigLocked ==
    /\ mutex_.AgentID = "online"
    /\ mutex_.AgentCP = "none"
    /\ OnlineConfig
    /\ AfterOnlineStep

\* AgentID::Offline, lines 306-313: the lock_guard around the flip of state_
OfflineLocked(t) ==
    /\ mutex_.AgentID = "none"
    /\ OfflineBegin(t)
    /\ UNCHANGED mutex_

\* AgentCP::DeleteAID, line 328, and AgentCP::Shutdown, line 116: the
\* lock_guard on AgentCP::mutex_, held until the call returns
OwnerLocked(op) ==
    /\ mutex_.AgentCP = "none"
    /\ OwnerBegin(op)
    /\ mutex_' = [mutex_ EXCEPT
                    !.AgentCP = IF owner'.pc = "done" THEN "none" ELSE "owner"]

\* AgentID::Invalidate, line 617: std::lock_guard<std::mutex> lock(mutex_)
InvalidateLocked ==
    /\ mutex_.AgentID = "none"
    /\ Invalidate
    /\ UNCHANGED mutex_

\* DeleteAID and Shutdown return: their lock_guard is destroyed
OwnerReturns ==
    /\ AgentDeleted
    /\ mutex_' = [mutex_ EXCEPT !.AgentCP = "none"]

\* AgentCP::CreateAID, lines 168-198: the lock_guard on AgentCP::mutex_, the
\* checks, the key and the CSR (made is FALSE when one of them fails)
CreateAIDBegin(aid, made) ==
    /\ creating.pc \in {"idle", "done"}
    /\ mutex_.AgentCP = "none"
    /\ IF ~acp.initialized_
       THEN creating' = [pc |-> "done", aid |-> aid, result |-> "NOT_INITIALIZED"]
       ELSE IF aid \in acp.aids_
       THEN creating' = [pc |-> "done", aid |-> aid, result |-> "AID_ALREADY_EXISTS"]
       ELSE IF ~made
       THEN creating' = [pc |-> "done", aid |-> aid, result |-> "CERT_ERROR"]
       ELSE creating' = [pc |-> "PostJson", aid |-> aid, result |-> "none"]
    /\ mutex_' = [mutex_ EXCEPT
                    !.AgentCP = IF creating'.pc = "done" THEN "none" ELSE "creator"]
    /\ UNCHANGED agVars

CreateAIDResults == {"Ok", "NETWORK_ERROR", "FILE_NOT_FOUND"}

\* AgentCP::CreateAID, lines 199-275: http.PostJson(ca_url, ...) has
\* returned; the certificate is saved, the agent goes into aids_, the
\* lock_guard is destroyed
CreateAIDPost(r) ==
    /\ creating.pc = "PostJson"
    /\ creating' = [creating EXCEPT !.pc = "done", !.result = r]
    /\ acp' = [acp EXCEPT !.aids_ = IF r = "Ok" THEN @ \cup {creating.aid} ELSE @]
    /\ mutex_' = [mutex_ EXCEPT !.AgentCP = "none"]
    /\ UNCHANGED <<agent, online, offline, owner, reported, query>>


(***************************************************************************)
(* GroupOperations::AckMessages and AckEvents (group/group_operations.cpp) *)
(* over the group client and the cursor store.  A caller is in one of the  *)
(* two: its SendRequest runs as above; when it has ended ("done") Check    *)
(* looks at what it ended with ("checked"), then the store is written and  *)
(* the call ends ("acked"), with what it returned or threw kept in         *)
(* req[c].outcome until the caller goes on.                                *)
(***************************************************************************)
AckStreams == {"ack_messages", "ack_events"}

\* the number of acks the callers make
MaxAcks == 2

\* the ids handed to AckMessages and AckEvents: ids of messages and events
CursorIds == 1..MaxId

\* AckMessages, line 218, AckEvents, line 249: Check(resp, ...) throws on a
\* non-zero code; what SendRequest threw goes on to the caller
AckCheck(c) ==
    /\ req[c].pc = "done"
    /\ req' = [req EXCEPT ![c].pc = "checked", ![c].outcome = Check(@)]
    /\ UNCHANGED <<closed_, seq_id_, cursor_store_, pending_reqs_, closePc, issued>>
    /\ UNCHANGED <<cursors_, dirty_, file_path_, disk>>

\* the save of lines 219-220 made whatever the request ended with
AckStoreUnchecked(c, method, id) ==
    /\ req[c].pc = "checked"
    /\ IF cursor_store_
       THEN IF method = "ack_messages"
            THEN SaveMsgCursor(SyncGroupId, id)
            ELSE SaveEventCursor(SyncGroupId, id)
       ELSE UNCHANGED <<cursors_, dirty_, file_path_, disk>>
    /\ req' = [req EXCEPT ![c].pc = "acked"]
    /\ UNCHANGED <<closed_, seq_id_, cursor_store_, pending_reqs_, closePc, issued>>

\* AckMessages, lines 219-220, AckEvents, lines 250-251: reached only when
\* nothing was thrown; if (store) store->SaveMsgCursor(group_id, msg_id)
AckStore(c, method, id) ==
    /\ req[c].pc = "checked"
    /\ IF req[c].outcome.kind = "return" /\ cursor_store_
       THEN IF method = "ack_messages"
            THEN SaveMsgCursor(SyncGroupId, id)
            ELSE SaveEventCursor(SyncGroupId, id)
       ELSE UNCHANGED <<cursors_, dirty_, file_path_, disk>>
    /\ req' = [req EXCEPT ![c].pc = "acked"]
    /\ UNCHANGED <<closed_, seq_id_, cursor_store_, pending_reqs_, closePc, issued>>

\* the caller has the result of its ack and may call again
AckReturn(c) ==
    /\ req[c].pc = "acked"
    /\ req' = [req EXCEPT ![c] = IdleReq]
    /\ UNCHANGED <<closed_, seq_id_, cursor_store_, pending_reqs_, closePc, issued>>
    /\ UNCHANGED <<cursors_, dirty_, file_path_, disk>>

(***************************************************************************)
(* The pulls of SyncGroup counted.                                         *)
(*   pulls   the pull_messages and pull_events requests SyncGroup has sent *)
(***************************************************************************)
VARIABLES pulls

drVars == <<pulls>>

\* the pulls one SyncGroup is followed for
MaxPulls == 4

DRInit == pulls = 0

\* PullMessages or PullEvents is called once more
Pulled ==
    /\ pulls < MaxPulls
    /\ pulls' = pulls + 1

(***************************************************************************)
(* The attempts of the reconnect loop counted (client/message_client.cpp). *)
(*   attempts   the connection attempts the loop has made (line 274) since *)
(*              the socket last reported Open                              *)
(***************************************************************************)
VARIABLES attempts

boVars == <<attempts>>

BOInit == attempts = 0

\* ReconnectLoop, lines 264-272, the attempt counted
ReconnectLoopAttempts ==
    /\ ReconnectLoopCreate
    /\ attempts' = attempts + 1

\* OnWsOpen: a connect has succeeded, the count of attempts starts again
OnWsOpenCounted ==
    /\ OnWsOpen
    /\ attempts' = 0

(***************************************************************************)
(* The specifications.  Each takes the steps of one component (or of the   *)
(* components one operation spans) and leaves the other variables alone.   *)
(***************************************************************************)
vars == <<csVars, gcVars, mcVars, syVars, agVars, smVars, inVars, hbVars, puVars, rsVars, lkVars, drVars, boVars, ivVars, siVars>>

INQuiet == INInit /\ handler_ /\ agent_message_handler_

csHistory == <<saved, lastOp>>

notStore == <<gcVars, mcVars, syVars, agVars, smVars, inVars, hbVars, puVars, rsVars, lkVars, drVars, boVars, ivVars, siVars>>

notGroup == <<csVars, mcVars, syVars, agVars, smVars, inVars, hbVars, puVars, rsVars, lkVars, drVars, boVars, ivVars, siVars>>

notMessage == <<csVars, gcVars, syVars, agVars, smVars, inVars, hbVars, puVars, rsVars, lkVars, drVars, boVars, ivVars, siVars>>

notSync == <<csVars, gcVars, mcVars, agVars, smVars, inVars, hbVars, puVars, rsVars, lkVars, drVars, boVars, ivVars, siVars>>

notAgent == <<csVars, gcVars, mcVars, syVars, smVars, inVars, hbVars, puVars, rsVars, lkVars, drVars, boVars, ivVars, siVars>>

notSession == <<csVars, gcVars, mcVars, syVars, inVars, hbVars, puVars, rsVars, lkVars, drVars, boVars, ivVars, siVars>>

\* the store as constructed on a file
CSQuiet == CSInit /\ file_path_ = "cursors.json"

\* the group client as constructed, with no request made
GCQuiet == GCInit /\ cursor_store_

\* a message client nobody uses, with the default configuration
MCQuiet == MCInit /\ auto_reconnect

\* an agent nobody uses, with the AP base configured
AGQuiet == AGInit /\ acp.ap_base_

\* no SyncGroup call, against a server holding nothing
SYQuiet == SYInit /\ server.n = 0 /\ server.m = 0

\* ---- the cursor store alone: every method, from any thread
StoreNext ==
    \/ \E g \in Groups, v \in Ids :
        SaveMsgCursor(g, v) /\ UNCHANGED <<csHistory, notStore>>
    \/ \E g \in Groups, v \in Ids :
        SaveEventCursor(g, v) /\ UNCHANGED <<csHistory, notStore>>
    \/ \E g \in Groups : RemoveCursor(g) /\ UNCHANGED <<csHistory, notStore>>
    \/ Flush /\ UNCHANGED <<cursors_, file_path_, csHistory, notStore>>
    \/ Close /\ UNCHANGED <<csHistory, notStore>>
    \/ Reopen /\ UNCHANGED <<csHistory, notStore>>

StoreInit == CSInit /\ GCQuiet /\ MCQuiet /\ SYQuiet /\ AGQuiet /\ SMInit /\ INQuiet /\ HBInit /\ PUQuiet /\ RSInit /\ LKInit /\ DRInit /\ BOInit /\ IVInit /\ SIInit

SpecStore == StoreInit /\ [][StoreNext]_vars

\* ---- the cursor store with the history of the saves recorded, and no
\* RemoveCursor
SavesNext ==
    \/ \E g \in Groups, v \in Ids :
        /\ SaveMsgCursor(g, v)
        /\ saved' = [saved EXCEPT ![g] = <<Max(@[1], v), @[2]>>]
        /\ lastOp' = "SaveMsgCursor"
        /\ UNCHANGED notStore
    \/ \E g \in Groups, v \in Ids :
        /\ SaveEventCursor(g, v)
        /\ saved' = [saved EXCEPT ![g] = <<@[1], Max(@[2], v)>>]
        /\ lastOp' = "SaveEventCursor"
        /\ UNCHANGED notStore
    \/ Flush /\ lastOp' = "Flush" /\ UNCHANGED <<cursors_, file_path_, saved, notStore>>
    \/ Close /\ lastOp' = "Close" /\ UNCHANGED <<saved, notStore>>
    \/ Reopen /\ lastOp' = "Reopen" /\ UNCHANGED <<saved, notStore>>

SpecSaves == StoreInit /\ [][SavesNext]_vars

\* ---- the group client: callers in SendRequest, the dispatch thread in
\* HandleIncoming, one thread in Close
GroupNext ==
    \/ \E c \in Callers : SendRequestBegin(c) /\ UNCHANGED notGroup
    \/ \E c \in Callers : SendRequestRegister(c) /\ UNCHANGED notGroup
    \/ \E c \in Callers : SendRequestSend(c) /\ UNCHANGED notGroup
    \/ \E c \in Callers : SendRequestWait(c) /\ UNCHANGED notGroup
    \/ \E c \in Callers : SendRequestDone(c) /\ UNCHANGED notGroup
    \/ GroupIncoming /\ UNCHANGED notGroup
    \/ CloseBegin /\ UNCHANGED notGroup
    \/ CloseSweep /\ UNCHANGED notGroup
    \/ CloseStore /\ UNCHANGED <<csHistory, mcVars, syVars, agVars, smVars, inVars, hbVars, puVars, rsVars, lkVars, drVars, boVars, ivVars, siVars>>

GroupInit == CSQuiet /\ GCInit /\ MCQuiet /\ SYQuiet /\ AGQuiet /\ SMInit /\ INQuiet /\ HBInit /\ PUQuiet /\ RSInit /\ LKInit /\ DRInit /\ BOInit /\ IVInit /\ SIInit

SpecGroup == GroupInit /\ [][GroupNext]_vars

notCursorAck == <<csHistory, mcVars, syVars, agVars, smVars, inVars, hbVars, puVars, rsVars, lkVars, drVars, boVars, ivVars, siVars>>

\* ---- callers in AckMessages and AckEvents, the dispatch thread in
\* HandleIncoming, one thread in Close
CursorAckNext ==
    \/ \E c \in Callers :
        seq_id_ < MaxAcks /\ SendRequestBegin(c) /\ UNCHANGED notGroup
    \/ \E c \in Callers : SendRequestRegister(c) /\ UNCHANGED notGroup
    \/ \E c \in Callers : SendRequestSend(c) /\ UNCHANGED notGroup
    \/ \E c \in Callers : SendRequestWait(c) /\ UNCHANGED notGroup
    \/ \E c \in Callers : AckCheck(c) /\ UNCHANGED notCursorAck
    \/ \E c \in Callers, method \in AckStreams, id \in CursorIds :
        AckStore(c, method, id) /\ UNCHANGED notCursorAck
    \/ \E c \in Callers : AckReturn(c) /\ UNCHANGED notCursorAck
    \/ GroupIncoming /\ UNCHANGED notGroup
    \/ CloseBegin /\ UNCHANGED notGroup
    \/ CloseSweep /\ UNCHANGED notGroup
    \/ CloseStore /\ UNCHANGED notCursorAck

CursorAckInit == CSInit /\ GCInit /\ MCQuiet /\ SYQuiet /\ AGQuiet /\ SMInit /\ INQuiet /\ HBInit /\ PUQuiet /\ RSInit /\ LKInit /\ DRInit /\ BOInit /\ IVInit /\ SIInit

SpecCursorAck == CursorAckInit /\ [][CursorAckNext]_vars

\* ---- the message client without auto-reconnect: Connect, the socket's
\* events, callers in SendAndWaitAck, inbound frames
AckNext ==
    \/ ConnectBegin /\ UNCHANGED notMessage
    \/ ConnectReturn /\ UNCHANGED notMessage
    \/ OnWsOpen /\ UNCHANGED notMessage
    \/ OnWsClose /\ UNCHANGED notMessage
    \/ OnWsError /\ UNCHANGED notMessage
    \/ \E a \in AckCallers, cmd \in Cmds :
        SendAndWaitAckRegister(a, cmd) /\ UNCHANGED notMessage
    \/ \E a \in AckCallers : SendAndWaitAckLoad(a) /\ UNCHANGED notMessage
    \/ \E a \in AckCallers : SendAndWaitAckSend(a) /\ UNCHANGED notMessage
    \/ \E a \in AckCallers : SendAndWaitAckWait(a) /\ UNCHANGED notMessage
    \/ \E f \in Frames : WsMessage(f) /\ UNCHANGED notMessage

AckInit == CSQuiet /\ GCQuiet /\ MCInit /\ ~auto_reconnect /\ SYQuiet /\ AGQuiet /\ SMInit /\ INQuiet /\ HBInit /\ PUQuiet /\ RSInit /\ LKInit /\ DRInit /\ BOInit /\ IVInit /\ SIInit

SpecAck == AckInit /\ [][AckNext]_vars

\* ---- the message client with auto-reconnect: Connect, the socket's
\* events, the reconnect loop, Disconnect, callers of SendMessage
ReconnectNext ==
    \/ ConnectBegin /\ UNCHANGED notMessage
    \/ ConnectReturn /\ UNCHANGED notMessage
    \/ OnWsOpen /\ UNCHANGED notMessage
    \/ OnWsClose /\ UNCHANGED notMessage
    \/ OnWsError /\ UNCHANGED notMessage
    \/ ReconnectLoopTop /\ UNCHANGED notMessage
    \/ ReconnectLoopEnter /\ UNCHANGED notMessage
    \/ ReconnectLoopWake /\ UNCHANGED notMessage
    \/ ReconnectLoopCreate /\ UNCHANGED notMessage
    \/ ReconnectLoopConnectReturn /\ UNCHANGED notMessage
    \/ ReconnectLoopBackoff /\ UNCHANGED notMessage
    \/ ReconnectLoopSucceeded /\ UNCHANGED notMessage
    \/ DisconnectBegin /\ UNCHANGED notMessage
    \/ DisconnectStop /\ UNCHANGED notMessage
    \/ DisconnectState /\ UNCHANGED notMessage
    \/ DisconnectJoin /\ UNCHANGED notMessage
    \/ DisconnectSweep /\ UNCHANGED notMessage
    \/ DisconnectReset /\ UNCHANGED notMessage
    \/ \E m \in Msgs : SendMessageLoad(m) /\ UNCHANGED notMessage
    \/ SendMessageSend /\ UNCHANGED notMessage

ReconnectInit == CSQuiet /\ GCQuiet /\ MCQuiet /\ SYQuiet /\ AGQuiet /\ SMInit /\ INQuiet /\ HBInit /\ PUQuiet /\ RSInit /\ LKInit /\ DRInit /\ BOInit /\ IVInit /\ SIInit

SpecReconnect == ReconnectInit /\ [][ReconnectNext]_vars

notBackoff == <<csVars, gcVars, syVars, agVars, smVars, inVars, hbVars, puVars, rsVars, lkVars, drVars, ivVars, siVars>>

\* ---- the reconnect loop with its attempts counted: Connect, the socket's
\* events, the loop
BackoffNext ==
    \/ ConnectBegin /\ UNCHANGED <<notBackoff, attempts>>
    \/ ConnectReturn /\ UNCHANGED <<notBackoff, attempts>>
    \/ OnWsOpenCounted /\ UNCHANGED notBackoff
    \/ OnWsClose /\ UNCHANGED <<notBackoff, attempts>>
    \/ OnWsError /\ UNCHANGED <<notBackoff, attempts>>
    \/ ReconnectLoopTop /\ UNCHANGED <<notBackoff, attempts>>
    \/ ReconnectLoopEnter /\ UNCHANGED <<notBackoff, attempts>>
    \/ ReconnectLoopWake /\ UNCHANGED <<notBackoff, attempts>>
    \/ ReconnectLoopAttempts /\ UNCHANGED notBackoff
    \/ ReconnectLoopConnectReturn /\ UNCHANGED <<notBackoff, attempts>>
    \/ ReconnectLoopBackoff /\ UNCHANGED <<notBackoff, attempts>>
    \/ ReconnectLoopSucceeded /\ UNCHANGED <<notBackoff, attempts>>

SpecBackoff == ReconnectInit /\ [][BackoffNext]_vars

\* ---- shutdown: one caller in SendRequest and one in SendAndWaitAck, the
\* server's answers to them, Close of the group client and Disconnect of
\* the message client (auto-reconnect off)
ShutCaller == "t1"

ShutAckCaller == "a1"

\* the ack the server sends for the request of ShutAckCaller
ShutAck == [parses |-> TRUE, cmd |-> "create_session_ack",
            data |-> <<RequestIdOf(ShutAckCaller), "x">>]

\* the steps of the callers after they entered SendRequest / SendAndWaitAck
ShutRegister == SendRequestRegister(ShutCaller) /\ UNCHANGED notGroup

ShutSend == SendRequestSend(ShutCaller) /\ UNCHANGED notGroup

ShutWait == SendRequestWait(ShutCaller) /\ UNCHANGED notGroup

ShutAckLoad == SendAndWaitAckLoad(ShutAckCaller) /\ UNCHANGED notMessage

ShutAckSend == SendAndWaitAckSend(ShutAckCaller) /\ UNCHANGED notMessage

ShutAckWait == SendAndWaitAckWait(ShutAckCaller) /\ UNCHANGED notMessage

ShutNext ==
    \/ SendRequestBegin(ShutCaller) /\ UNCHANGED notGroup
    \/ ShutRegister \/ ShutSend \/ ShutWait
    \/ GroupIncoming /\ UNCHANGED notGroup
    \/ CloseBegin /\ UNCHANGED notGroup
    \/ CloseSweep /\ UNCHANGED notGroup
    \/ CloseStore /\ UNCHANGED <<csHistory, mcVars, syVars, agVars, smVars, inVars, hbVars, puVars, rsVars, lkVars, drVars, boVars, ivVars, siVars>>
    \/ ConnectBegin /\ UNCHANGED notMessage
    \/ ConnectReturn /\ UNCHANGED notMessage
    \/ OnWsOpen /\ UNCHANGED notMessage
    \/ OnWsClose /\ UNCHANGED notMessage
    \/ OnWsError /\ UNCHANGED notMessage
    \/ SendAndWaitAckRegister(ShutAckCaller, ShutAck.cmd) /\ UNCHANGED notMessage
    \/ ShutAckLoad \/ ShutAckSend \/ ShutAckWait
    \/ WsMessage(ShutAck) /\ UNCHANGED notMessage
    \/ DisconnectBegin /\ UNCHANGED notMessage
    \/ DisconnectStop /\ UNCHANGED notMessage
    \/ DisconnectState /\ UNCHANGED notMessage
    \/ DisconnectJoin /\ UNCHANGED notMessage
    \/ DisconnectSweep /\ UNCHANGED notMessage
    \/ DisconnectReset /\ UNCHANGED notMessage

ShutInit == CSQuiet /\ GCInit /\ MCInit /\ ~auto_reconnect /\ SYQuiet /\ AGQuiet /\ SMInit /\ INQuiet /\ HBInit /\ PUQuiet /\ RSInit /\ LKInit /\ DRInit /\ BOInit /\ IVInit /\ SIInit

\* a caller that can take its next step takes it; wait_for returns at the
\* latest when its timeout has passed
ShutFairness ==
    /\ WF_vars(ShutRegister) /\ WF_vars(ShutSend) /\ WF_vars(ShutWait)
    /\ WF_vars(ShutAckLoad) /\ WF_vars(ShutAckSend) /\ WF_vars(ShutAckWait)

SpecShutdown == ShutInit /\ [][ShutNext]_vars /\ ShutFairness

\* ---- SyncGroup: acks of earlier sessions fill the store, then one thread
\* runs SyncGroup against the server
SyncNext ==
    \/ /\ sync.pc = "idle" /\ cursor_store_
       /\ \E v \in 1..MaxMsgs : SaveMsgCursor(SyncGroupId, v)
       /\ UNCHANGED <<csHistory, gcVars, mcVars, syVars, agVars, smVars, inVars, hbVars, puVars, rsVars, lkVars, drVars, boVars, ivVars, siVars>>
    \/ /\ sync.pc = "idle" /\ cursor_store_
       /\ \E v \in 1..MaxEvents : SaveEventCursor(SyncGroupId, v)
       /\ UNCHANGED <<csHistory, gcVars, mcVars, syVars, agVars, smVars, inVars, hbVars, puVars, rsVars, lkVars, drVars, boVars, ivVars, siVars>>
    \/ SyncGroupBegin /\ UNCHANGED notSync
    \/ SyncMessagesPull /\ UNCHANGED notSync
    \/ SyncMessagesAck /\ UNCHANGED <<csHistory, gcVars, mcVars, agVars, smVars, inVars, hbVars, puVars, rsVars, lkVars, drVars, boVars, ivVars, siVars>>
    \/ SyncEventsPull /\ UNCHANGED notSync
    \/ SyncEventsAck /\ UNCHANGED <<csHistory, gcVars, mcVars, agVars, smVars, inVars, hbVars, puVars, rsVars, lkVars, drVars, boVars, ivVars, siVars>>

SyncInit == CSInit /\ GCInit /\ MCQuiet /\ SYInit /\ AGQuiet /\ SMInit /\ INQuiet /\ HBInit /\ PUQuiet /\ RSInit /\ LKInit /\ DRInit /\ BOInit /\ IVInit /\ SIInit

SpecSync == SyncInit /\ [][SyncNext]_vars

notDrain == <<csHistory, gcVars, mcVars, agVars, smVars, inVars, hbVars, puVars, rsVars, lkVars, boVars, ivVars, siVars>>

\* ---- SyncGroup with its pulls counted: one thread runs SyncGroup against
\* the server
DrainNext ==
    \/ SyncGroupBegin /\ UNCHANGED <<csVars, notDrain, pulls>>
    \/ SyncMessagesPull /\ Pulled /\ UNCHANGED <<csVars, notDrain>>
    \/ SyncMessagesAck /\ UNCHANGED <<notDrain, pulls>>
    \/ SyncEventsPull /\ Pulled /\ UNCHANGED <<csVars, notDrain>>
    \/ SyncEventsAck /\ UNCHANGED <<notDrain, pulls>>

SpecDrain == SyncInit /\ [][DrainNext]_vars

\* ---- one agent: a thread in Online, a thread in Offline, the owner's
\* thread in DeleteAID or Shutdown, the message socket's events
AgentNext ==
    \/ OnlineBegin /\ UNCHANGED notAgent
    \/ OnlineConfig /\ UNCHANGED notAgent
    \/ \E ok \in BOOLEAN : OnlineAuth(ok) /\ UNCHANGED notAgent
    \/ \E r \in HeartbeatResults : OnlineHeartbeat(r) /\ UNCHANGED notAgent
    \/ \E connected \in BOOLEAN : OnlineMessage(connected) /\ UNCHANGED notAgent
    \/ InitGroupClient /\ UNCHANGED notAgent
    \/ MessageSocketDown /\ UNCHANGED notAgent
    \/ MessageSocketUp /\ UNCHANGED notAgent
    \/ \E t \in OfflineThreads : OfflineBegin(t) /\ UNCHANGED notAgent
    \/ \E t \in OfflineThreads : OfflineCall(t) /\ UNCHANGED notAgent
    \/ \E t \in OfflineThreads : OfflineReset(t) /\ UNCHANGED notAgent
    \/ \E t \in OfflineThreads : OfflineSignature(t) /\ UNCHANGED notAgent
    \/ \E t \in OfflineThreads : OfflineNotify(t) /\ UNCHANGED notAgent
    \/ \E t \in OfflineThreads : OfflineOnFreed(t) /\ UNCHANGED notAgent
    \/ \E op \in OwnerOps : OwnerBegin(op) /\ UNCHANGED notAgent
    \/ Invalidate /\ UNCHANGED notAgent
    \/ AgentDeleted /\ UNCHANGED notAgent

AgentInit == CSQuiet /\ GCQuiet /\ MCQuiet /\ SYQuiet /\ AGInit /\ SMInit /\ INQuiet /\ HBInit /\ PUQuiet /\ RSInit /\ LKInit /\ DRInit /\ BOInit /\ IVInit /\ SIInit

SpecAgent == AgentInit /\ [][AgentNext]_vars

\* ---- use after delete: a thread in Online, the owner's thread in
\* DeleteAID or Shutdown, and calls of IsValid, IsOnline and GetState
\* through the pointer CreateAID returned
InvalidNext ==
    \/ OnlineBegin /\ UNCHANGED notAgent
    \/ OnlineConfig /\ UNCHANGED notAgent
    \/ \E ok \in BOOLEAN : OnlineAuth(ok) /\ UNCHANGED notAgent
    \/ \E r \in HeartbeatResults : OnlineHeartbeat(r) /\ UNCHANGED notAgent
    \/ \E connected \in BOOLEAN : OnlineMessage(connected) /\ UNCHANGED notAgent
    \/ OfflineBegin("owner") /\ UNCHANGED notAgent
    \/ OfflineCall("owner") /\ UNCHANGED notAgent
    \/ OfflineReset("owner") /\ UNCHANGED notAgent
    \/ OfflineSignature("owner") /\ UNCHANGED notAgent
    \/ OfflineNotify("owner") /\ UNCHANGED notAgent
    \/ \E op \in OwnerOps : OwnerBegin(op) /\ UNCHANGED notAgent
    \/ Invalidate /\ UNCHANGED notAgent
    \/ AgentDeleted /\ UNCHANGED notAgent
    \/ Queries /\ UNCHANGED notAgent

SpecInvalid == AgentInit /\ [][InvalidNext]_vars

\* the agent as Online leaves it (OnlineMessage), the message socket
\* connected or not
OnlineAgent ==
    /\ acp = [initialized_ |-> TRUE, ap_base_ |-> TRUE, aids_ |-> {TheAid}]
    /\ \E connected \in BOOLEAN :
        agent = [NewAgent EXCEPT !.state_ = "Online", !.signature_ = TRUE,
                                 !.auth_client_ = "up",
                                 !.heartbeat_client_ = "up",
                                 !.message_client_ = IF connected THEN "connected"
                                                     ELSE "disconnected"]
    /\ online = [pc |-> "done", result |-> "Ok"]
    /\ reported = <<"Authenticating", "Online">>
    /\ offline = [t \in OfflineThreads |-> IdleOffline]
    /\ owner = [pc |-> "idle", op |-> "none"]
    /\ query = NoQuery

\* ---- the SessionManager of an agent that is Online: one thread in
\* CreateSession, the other methods from other threads on the session it
\* makes, the message socket going down and coming back
SessionNext ==
    \/ \E members \in MemberLists, acked \in BOOLEAN, id \in ServerIds :
        CreateSessionStore(members, acked, id) /\ UNCHANGED <<notSession, agVars>>
    \/ \E sent \in BOOLEAN :
        CreateSessionInvite(sent) /\ UNCHANGED <<notSession, agVars>>
    \/ \E s \in ServerIds, a \in Aids :
        InviteAgent(s, a) /\ UNCHANGED <<notSession, agVars>>
    \/ \E s \in ServerIds : JoinSession(s) /\ UNCHANGED <<notSession, agVars>>
    \/ \E s \in ServerIds : LeaveSession(s) /\ UNCHANGED <<notSession, agVars>>
    \/ \E s \in ServerIds : CloseSession(s) /\ UNCHANGED <<notSession, agVars>>
    \/ \E s \in ServerIds, a \in Aids :
        EjectAgent(s, a) /\ UNCHANGED <<notSession, agVars>>
    \/ MessageSocketDown /\ UNCHANGED notAgent
    \/ MessageSocketUp /\ UNCHANGED notAgent

SessionInit == CSQuiet /\ GCQuiet /\ MCQuiet /\ SYQuiet /\ OnlineAgent /\ SMInit /\ INQuiet /\ HBInit /\ PUQuiet /\ RSInit /\ LKInit /\ DRInit /\ BOInit /\ IVInit /\ SIInit

SpecSession == SessionInit /\ [][SessionNext]_vars

\* ---- CreateSession with the server's answer to create_session_req, the
\* invites, CloseSession, the message socket's events
CreateNext ==
    \/ \E members \in MemberLists, ack_json \in AckJsons :
        CreateSession(members, ack_json) /\ UNCHANGED <<notSession, agVars>>
    \/ \E sent \in BOOLEAN :
        CreateSessionInvite(sent) /\ UNCHANGED <<notSession, agVars>>
    \/ \E s \in SessionIds : CloseSession(s) /\ UNCHANGED <<notSession, agVars>>
    \/ MessageSocketDown /\ UNCHANGED notAgent
    \/ MessageSocketUp /\ UNCHANGED notAgent

SpecCreate == SessionInit /\ [][CreateNext]_vars

\* ---- the methods that look a session id up, on ids the map has and has
\* not, the sessions made by CreateSession without the server or by
\* JoinSession
LookupNext ==
    \/ \E members \in MemberLists, id \in ServerIds :
        CreateSessionStore(members, FALSE, id) /\ UNCHANGED <<notSession, agVars>>
    \/ \E s \in SessionIds, a \in Aids :
        InviteAgent(s, a) /\ UNCHANGED <<notSession, agVars>>
    \/ \E s \in SessionIds : JoinSession(s) /\ UNCHANGED <<notSession, agVars>>
    \/ \E s \in SessionIds : LeaveSession(s) /\ UNCHANGED <<notSession, agVars>>
    \/ \E s \in SessionIds : CloseSession(s) /\ UNCHANGED <<notSession, agVars>>
    \/ \E s \in SessionIds, a \in Aids :
        EjectAgent(s, a) /\ UNCHANGED <<notSession, agVars>>
    \/ \E s \in SessionIds : GetMemberList(s) /\ UNCHANGED <<notSession, agVars>>
    \/ \E s \in SessionIds, r \in SendResults :
        SessionSend(s, "SendMessage", r) /\ UNCHANGED <<notSession, agVars>>
    \/ \E s \in SessionIds, r \in SendResults :
        SessionSend(s, "CreateStream", r) /\ UNCHANGED <<notSession, agVars>>

SpecLookup == SessionInit /\ [][LookupNext]_vars

notInbound == <<csVars, mcVars, syVars, smVars, hbVars, puVars, rsVars, lkVars, drVars, boVars, ivVars, siVars>>

\* the frames the message server sends: a payload with a request_id carries
\* one that is on the wire or one of no request
ServerFrames ==
    {f \in InFrames(OnWire \cup {NoId, StrayId}) :
        ~f.parsed => f.sender = "bob" /\ f.message.json = "missing"}

\* ---- inbound frames of an agent that is Online, with and without a group
\* client, one thread in SendRequest on the group client
InboundNext ==
    \/ SendRequestBegin("t1") /\ UNCHANGED <<notGroup>>
    \/ SendRequestRegister("t1") /\ UNCHANGED <<notGroup>>
    \/ SendRequestSend("t1") /\ UNCHANGED <<notGroup>>
    \/ SendRequestWait("t1") /\ UNCHANGED <<notGroup>>
    \/ SendRequestDone("t1") /\ UNCHANGED <<notGroup>>
    \/ InitGroupClient /\ UNCHANGED notAgent
    \/ \E h \in BOOLEAN : SetEventHandler(h) /\ UNCHANGED <<notInbound, gcVars, agVars>>
    \/ \E h \in BOOLEAN : SetMessageHandler(h) /\ UNCHANGED <<notInbound, gcVars, agVars>>
    \/ \E f \in ServerFrames, code \in Codes :
        MessageHandler(f, code) /\ UNCHANGED <<notInbound, agVars>>

InboundInit ==
    /\ CSQuiet /\ GCInit /\ ~cursor_store_ /\ MCQuiet /\ SYQuiet
    /\ OnlineAgent /\ WsConnected /\ SMInit /\ INInit /\ HBInit /\ PUQuiet /\ RSInit /\ LKInit /\ DRInit /\ BOInit /\ IVInit /\ SIInit

SpecInbound == InboundInit /\ [][InboundNext]_vars

notHeartbeat == <<csVars, gcVars, mcVars, syVars, agVars, smVars, inVars, puVars, rsVars, lkVars, drVars, boVars, ivVars, siVars>>

\* ---- the heartbeat of an agent that is Online: the two loops of the
\* client and the heartbeat server
HeartbeatNext ==
    \/ SendLoopRead /\ UNCHANGED notHeartbeat
    \/ SendLoopSend /\ UNCHANGED notHeartbeat
    \/ ServerExpires /\ UNCHANGED notHeartbeat
    \/ \E interval \in ServerIntervals : ServerAnswers(interval) /\ UNCHANGED notHeartbeat
    \/ ReceiveLoopResp /\ UNCHANGED notHeartbeat
    \/ \E ok \in BOOLEAN : ReauthenticateSignIn(ok) /\ UNCHANGED notHeartbeat
    \/ Reauthenticate /\ UNCHANGED notHeartbeat

HeartbeatInit ==
    /\ CSQuiet /\ GCQuiet /\ MCQuiet /\ SYQuiet /\ OnlineAgent /\ SMInit
    /\ INQuiet /\ HBInit /\ PUQuiet /\ RSInit /\ LKInit /\ DRInit /\ BOInit /\ IVInit /\ SIInit

SpecHeartbeat == HeartbeatInit /\ [][HeartbeatNext]_vars

notInvite == <<csVars, gcVars, mcVars, syVars, agVars, smVars, inVars, puVars, rsVars, lkVars, drVars, boVars, siVars>>

\* ---- the invites of an agent that is Online: the receive loop between
\* heartbeat responses and invite requests, the registration of the callback
InviteNext ==
    \/ SetInviteCallback /\ UNCHANGED <<hbVars, notInvite>>
    \/ \E r \in InviteReqs : ServerInvites(r) /\ UNCHANGED <<hbVars, notInvite>>
    \/ ReceiveLoopInvite /\ InviteKeeps /\ UNCHANGED notInvite
    \/ \E throws \in BOOLEAN : ReceiveLoopCallback(throws) /\ InviteKeeps /\ UNCHANGED notInvite
    \/ \E valid \in BOOLEAN : ReceiveLoopRespond(valid) /\ InviteKeeps /\ UNCHANGED notInvite
    \/ SendLoopRead /\ UNCHANGED <<ivVars, notInvite>>
    \/ SendLoopSend /\ UNCHANGED <<ivVars, notInvite>>
    \/ ServerExpires /\ UNCHANGED <<ivVars, notInvite>>
    \/ \E interval \in ServerIntervals : ServerAnswers(interval) /\ UNCHANGED <<ivVars, notInvite>>
    \/ ReceiveLoopResp /\ UNCHANGED <<ivVars, notInvite>>
    \/ \E ok \in BOOLEAN : ReauthenticateSignIn(ok) /\ UNCHANGED <<ivVars, notInvite>>
    \/ Reauthenticate /\ UNCHANGED <<ivVars, notInvite>>

SpecInvite == HeartbeatInit /\ [][InviteNext]_vars

notSignIn == <<csVars, gcVars, mcVars, syVars, agVars, smVars, inVars, hbVars, puVars, rsVars, lkVars, drVars, boVars, ivVars>>

\* the steps of the calling thread that wait for nobody
SignInStep ==
    \/ \E connected \in BOOLEAN : SignInPost(connected) /\ UNCHANGED notSignIn
    \/ \E r \in SigningResults : SignInSign(r) /\ UNCHANGED notSignIn
    \/ SignInSleep /\ UNCHANGED notSignIn

\* ---- calls of AuthClient::SignIn, one after the other, and the returns
\* of RecvAll, which are the server's to give
SignInNext ==
    \/ \E m \in 0..MaxRetries : SignInBegin(m) /\ UNCHANGED notSignIn
    \/ SignInStep
    \/ \E r \in ChallengeResults : SignInChallenge(r) /\ UNCHANGED notSignIn
    \/ \E r \in ProofResults : SignInProof(r) /\ UNCHANGED notSignIn

SignInInit ==
    /\ CSQuiet /\ GCQuiet /\ MCQuiet /\ SYQuiet /\ AGQuiet /\ SMInit
    /\ INQuiet /\ HBInit /\ PUQuiet /\ RSInit /\ LKInit /\ DRInit /\ BOInit /\ IVInit /\ SIInit

\* the calling thread goes on running; nothing in PostJson bounds the wait
\* for the server
SpecSignIn == SignInInit /\ [][SignInNext]_vars /\ WF_vars(SignInStep)

notUrl == <<csVars, gcVars, mcVars, syVars, agVars, smVars, inVars, hbVars, rsVars, lkVars, drVars, boVars, ivVars, siVars>>

\* ---- ParseGroupUrl on every URL of the bounded set
UrlNext == ParseGroupUrlCall /\ UNCHANGED notUrl

UrlInit ==
    /\ CSQuiet /\ GCQuiet /\ MCQuiet /\ SYQuiet /\ AGQuiet /\ SMInit
    /\ INQuiet /\ HBInit /\ PUInit /\ RSInit /\ LKInit /\ DRInit /\ BOInit /\ IVInit /\ SIInit

SpecUrl == UrlInit /\ [][UrlNext]_vars

notStarters == <<csVars, gcVars, syVars, agVars, smVars, inVars, hbVars, puVars, lkVars, drVars, boVars, ivVars, siVars>>

\* ---- the message client with auto-reconnect, StartReconnectLoopIfNeeded
\* step by step: Connect, the socket's events, the reconnect loop
StartersNext ==
    \/ ConnectBegin /\ UNCHANGED <<notStarters, rsVars, lkVars, drVars, boVars, ivVars, siVars>>
    \/ ConnectReturnCalls /\ UNCHANGED notStarters
    \/ OnWsOpen /\ UNCHANGED <<notStarters, rsVars, lkVars, drVars, boVars, ivVars, siVars>>
    \/ OnWsCloseCalls /\ UNCHANGED notStarters
    \/ OnWsErrorCalls /\ UNCHANGED notStarters
    \/ \E c \in Starters : StartReconnectCheck(c) /\ UNCHANGED notStarters
    \/ \E c \in Starters : StartReconnectJoin(c) /\ UNCHANGED notStarters
    \/ \E c \in Starters : StartReconnectCas(c) /\ UNCHANGED notStarters
    \/ \E c \in Starters : StartReconnectAssign(c) /\ UNCHANGED notStarters
    \/ ReconnectLoopTop /\ UNCHANGED <<notStarters, rsVars, lkVars, drVars, boVars, ivVars, siVars>>
    \/ ReconnectLoopEnter /\ UNCHANGED <<notStarters, rsVars, lkVars, drVars, boVars, ivVars, siVars>>
    \/ ReconnectLoopWake /\ UNCHANGED <<notStarters, rsVars, lkVars, drVars, boVars, ivVars, siVars>>
    \/ ReconnectLoopCreate /\ UNCHANGED <<notStarters, rsVars, lkVars, drVars, boVars, ivVars, siVars>>
    \/ ReconnectLoopConnectReturn /\ UNCHANGED <<notStarters, rsVars, lkVars, drVars, boVars, ivVars, siVars>>
    \/ ReconnectLoopBackoff /\ UNCHANGED <<notStarters, rsVars, lkVars, drVars, boVars, ivVars, siVars>>
    \/ ReconnectLoopSucceeded /\ UNCHANGED <<notStarters, rsVars, lkVars, drVars, boVars, ivVars, siVars>>

SpecStarters == ReconnectInit /\ [][StartersNext]_vars

notLocks == <<csVars, gcVars, mcVars, syVars, smVars, inVars, hbVars, puVars, rsVars, drVars, boVars, ivVars, siVars>>

\* ---- the two mutexes: a thread in Online, the owner's thread in DeleteAID
\* or Shutdown with the Offline calls of Invalidate and of the destructor
LocksNext ==
    \/ OnlineLock /\ UNCHANGED notLocks
    \/ OnlineLocked /\ UNCHANGED <<notLocks, creating>>
    \/ OnlineConfigLocked /\ UNCHANGED <<notLocks, creating>>
    \/ \E ok \in BOOLEAN : OnlineAuth(ok) /\ AfterOnlineStep /\ UNCHANGED <<notLocks, creating>>
    \/ \E r \in HeartbeatResults :
        OnlineHeartbeat(r) /\ AfterOnlineStep /\ UNCHANGED <<notLocks, creating>>
    \/ \E connected \in BOOLEAN :
        OnlineMessage(connected) /\ AfterOnlineStep /\ UNCHANGED <<notLocks, creating>>
    \/ OfflineLocked("owner") /\ UNCHANGED <<notLocks, creating>>
    \/ OfflineCall("owner") /\ UNCHANGED <<notLocks, lkVars, drVars, boVars, ivVars, siVars>>
    \/ OfflineReset("owner") /\ UNCHANGED <<notLocks, lkVars, drVars, boVars, ivVars, siVars>>
    \/ OfflineSignature("owner") /\ UNCHANGED <<notLocks, lkVars, drVars, boVars, ivVars, siVars>>
    \/ OfflineNotify("owner") /\ UNCHANGED <<notLocks, lkVars, drVars, boVars, ivVars, siVars>>
    \/ \E op \in OwnerOps : OwnerLocked(op) /\ UNCHANGED <<notLocks, creating>>
    \/ InvalidateLocked /\ UNCHANGED <<notLocks, creating>>
    \/ \E aid \in {TheAid, OtherAid}, made \in BOOLEAN :
        CreateAIDBegin(aid, made) /\ UNCHANGED notLocks
    \/ \E r \in CreateAIDResults : CreateAIDPost(r) /\ UNCHANGED notLocks
    \/ OwnerReturns /\ UNCHANGED <<notLocks, creating>>

SpecLocks == AgentInit /\ [][LocksNext]_vars

C3_ResponsesMatchedByRequestId ==
    /\ Cardinality(issued) = seq_id_
    /\ \A c \in Callers :
         /\ req[c].ready => req[c].response.request_id = req[c].req_id
         /\ req[c].outcome.kind = "return" =>
               /\ req[c].ready
               /\ req[c].outcome.response.request_id = req[c].req_id
    /\ \A c, d \in Callers :
         (c # d /\ req[c].req_id # NoId /\ req[d].req_id # NoId) =>
            req[c].req_id # req[d].req_id

\* C3 witness: two concurrent callers, ids generated in the same millisecond,
\* each returned the response that carries its own id.
C3_Witness ==
    \E c, d \in Callers :
        /\ c # d
        /\ req[c].outcome.kind = "return" /\ req[d].outcome.kind = "return"
        /\ req[c].req_id[1] = req[d].req_id[1]
        /\ req[c].outcome.response.code # req[d].outcome.response.code

\* a SendRequest that was sent and has ended
SentAndEnded(c) ==
    /\ req[c].pc = "done"
    /\ req[c].outcome \notin {ErrClosed, ErrSendFailed}

\* what tells one error from another: the exception type and the what() text
ErrorKind(o) == <<o.type, o.what>>

C7_FulfilledOrForwarded ==
    (lastFrame.handled /\ lastFrame.frame.parses) =>
        LET f == lastFrame.frame
            a == lastFrame.fulfilled
        IN /\ (a # NoCaller) # lastFrame.forwarded
           /\ a # NoCaller =>
                /\ f.data # EmptyString
                /\ f.data[1] = RequestIdOf(a)
                /\ ack[a].cmd = f.cmd
                /\ ack[a].ready
                /\ ack[a].result = f.data

\* a frame carrying a waiter's request id and another cmd went to the handler
\* while the waiter stayed unfulfilled
C7_Witness ==
    /\ lastFrame.handled /\ lastFrame.forwarded
    /\ \E a \in AckCallers :
        /\ ack[a].pc = "wait" /\ ~ack[a].ready
        /\ lastFrame.frame.data # EmptyString
        /\ lastFrame.frame.data[1] = RequestIdOf(a)
        /\ lastFrame.frame.cmd # ack[a].cmd

(***************************************************************************)
(* C1.  As claimed: once a SendAndWaitAck call has returned the data of    *)
(* its matching frame, a later duplicate of that frame (same cmd, same     *)
(* data) is dropped: it does not reach the message handler.                *)
(***************************************************************************)
C1_DuplicateNeverReachesHandler ==
    \A a \in AckCallers :
        (ack[a].pc = "done" /\ ack[a].ret # EmptyString) =>
            ~(/\ lastFrame.handled /\ lastFrame.forwarded
              /\ lastFrame.frame.cmd = ack[a].cmd
              /\ lastFrame.frame.data = ack[a].ret)

(***************************************************************************)
(* C5.  As claimed: with auto-reconnect enabled and no shutdown requested, *)
(* once Connect has returned and the socket is closed the reconnect loop   *)
(* is running: the client is never left disconnected with no loop.         *)
(***************************************************************************)
C5_LoopRunsWhileDisconnected ==
    (/\ auto_reconnect /\ ~shutdown_requested_
     /\ connectPc = "done" /\ ws_.phase = "closed" /\ state_ = "Disconnected")
        => (reconnect_loop_running_ /\ reconnect_thread_ \notin {"none", "finished"})

(***************************************************************************)
(* C6.  As claimed: a message handed to SendMessage while the client is    *)
(* disconnected is buffered (it is in message_queue_, to be flushed on the *)
(* next open) or has been sent.                                            *)
(***************************************************************************)
C6_BufferedWhileDisconnected ==
    (sender.pc = "returned" /\ sender.disconnected) =>
        \/ \E i \in 1..Len(message_queue_) : message_queue_[i] = sender.msg
        \/ \E i \in 1..Len(wire) : wire[i] = sender.msg

(***************************************************************************)
(* C2.  As claimed, for the interleaving in which Close runs between the   *)
(* closed_ check of a SendRequest and its registration: the request, which *)
(* was issued before Close returned, completes with a cancellation or      *)
(* timeout result (a request whose send fails is left aside: it ends with  *)
(* the send error).                                                        *)
(***************************************************************************)
C2_CancellationOrTimeoutResult ==
    \A c \in Callers :
        []((closePc = "done" /\ req[c].pc = "register") =>
              [](req[c].pc = "done" =>
                    req[c].outcome \in {ErrCancelled, ErrTimeout, ErrSendFailed}))

RECURSIVE Concat(_)
\* the batches of a sequence of batches one after the other
Concat(batches) ==
    IF batches = <<>> THEN <<>> ELSE batches[1] \o Concat(Tail(batches))

\* the message position a SyncGroup started from, from what it found
SyncStart == Max(sync.server_at_start[1], sync.local_at_start[1])

\* OnMessages got exactly the ids above the start, in order, each once, and
\* the acks are the last ids of the batches
DeliveredAndAcked ==
    /\ Concat(onMessages) = Batch(SyncStart, Max(server.n - SyncStart, 0))
    /\ Len(ackedMessages) = Len(onMessages)
    /\ \A i \in 1..Len(onMessages) :
        ackedMessages[i] = onMessages[i][Len(onMessages[i])]

(***************************************************************************)
(* C8.  As claimed: a SyncGroup that completes against a server holding    *)
(* the ids 1..n, from c = max(server current_msg_id, local cursor), has    *)
(* delivered exactly the ids above c once and in order, acked the last id  *)
(* of each batch, and leaves the persisted message cursor at n.            *)
(***************************************************************************)
C8_DeliversAndPersistsN ==
    (sync.pc = "done" /\ cursor_store_) =>
        /\ DeliveredAndAcked
        /\ LoadCursor(SyncGroupId)[1] = server.n

(***************************************************************************)
(* C8, amended.  A SyncGroup that completes has delivered exactly the ids  *)
(* above c once and in order and acked the last id of each batch.  With a  *)
(* cursor store the persisted message cursor is then n if a message was    *)
(* delivered (c < n); if none was (c >= n) nothing is acked and the        *)
(* persisted cursor stays what the store held before.                      *)
(***************************************************************************)
C8_DeliversAndPersistsLastAcked ==
    sync.pc = "done" =>
        /\ DeliveredAndAcked
        /\ cursor_store_ =>
            LoadCursor(SyncGroupId)[1] =
                IF SyncStart < server.n THEN server.n ELSE sync.local_at_start[1]

\* the ids 1..5 with the local cursor at 2: 3, 4, 5 delivered in more than
\* one batch, 5 acked last, the cursor at 5
C8_Witness ==
    /\ sync.pc = "done" /\ cursor_store_
    /\ server.n = 5 /\ sync.local_at_start[1] = 2 /\ sync.server_at_start[1] < 2
    /\ Concat(onMessages) = <<3, 4, 5>> /\ Len(onMessages) > 1
    /\ ackedMessages[Len(ackedMessages)] = 5
    /\ LoadCursor(SyncGroupId)[1] = 5

(***************************************************************************)
(* C11.  As claimed, for the drop: when the agent is dropped by DeleteAID  *)
(* or Shutdown its teardown has run, every sub-client (group client,       *)
(* message client, heartbeat, auth client) has been stopped and reset and  *)
(* the signature is cleared.                                               *)
(***************************************************************************)
C11_TeardownBeforeDrop ==
    agent.freed =>
        /\ \A i \in 1..Len(TeardownOrder) : agent[TeardownOrder[i]] = "none"
        /\ ~agent.signature_

\* the edges of the lifecycle as the specification draws it
LifecycleEdges ==
    {<<"Offline", "Connecting">>, <<"Connecting", "Authenticating">>,
     <<"Authenticating", "Online">>, <<"Online", "Reconnecting">>,
     <<"Online", "Error">>, <<"Reconnecting", "Offline">>,
     <<"Error", "Offline">>}

\* Online is called on an agent that is Offline and gets past its checks
OnlineStartsFromOffline ==
    online.pc \in {"idle", "done"} /\ online'.pc = "config"
    /\ agent.state_ = "Offline"

ReportedEdges ==
    {<<"Offline", "Connecting">>, <<"Error", "Connecting">>,
     <<"Connecting", "Authenticating">>, <<"Connecting", "Offline">>,
     <<"Authenticating", "Online">>, <<"Authenticating", "Error">>,
     <<"Online", "Offline">>, <<"Error", "Offline">>}

\* the changes of state_ Invalidate makes, which it does not report
InvalidateEdges == {<<"Offline", "Error">>, <<"Online", "Error">>}

BringUpFails ==
    online.pc \in {"auth", "heartbeat", "message"} /\ online'.pc = "done"
    /\ online'.result \in {"AUTH_FAILED", "NETWORK_ERROR"}

(***************************************************************************)
(* C13.  As claimed: when a step of the bring-up fails, Online returns an  *)
(* error, a transition to Error is delivered to the state-change handler,  *)
(* and the auth client, the heartbeat client and the message client are    *)
(* all gone and no signature is left.                                      *)
(***************************************************************************)
C13_FailedBringUpUnwinds ==
    [][BringUpFails =>
          /\ agent'.state_ = "Error" /\ reported' = <<"Authenticating", "Error">>
          /\ agent'.auth_client_ = "none" /\ agent'.heartbeat_client_ = "none"
          /\ agent'.message_client_ = "none"
          /\ ~agent'.signature_]_vars

(***************************************************************************)
(* C14.  As claimed: when Online returns Ok and the state has just become  *)
(* Online, the message client is connected.                                *)
(***************************************************************************)
C14_OnlineOnlyWhenConnected ==
    [][(online.pc = "message" /\ online'.result = "Ok"
        /\ agent'.state_ = "Online") =>
            agent'.message_client_ = "connected"]_vars

(***************************************************************************)
(* C14, amended.  Once the heartbeat has started, Online makes the message *)
(* client, tries its Connect, and then returns Ok with the state Online    *)
(* whether or not the connect succeeded: the message client is connected   *)
(* or left disconnected.                                                   *)
(***************************************************************************)
C14_OnlineAfterConnectAttempt ==
    [][(online.pc = "message" /\ online'.pc = "done") =>
            /\ online'.result = "Ok" /\ agent'.state_ = "Online"
            /\ reported' = <<"Authenticating", "Online">>
            /\ agent'.message_client_ \in {"connected", "disconnected"}]_vars

\* Online has returned Ok and the agent is Online with its message client
\* not connected
C14_Witness ==
    /\ online.pc = "done" /\ online.result = "Ok"
    /\ agent.state_ = "Online" /\ reported = <<"Authenticating", "Online">>
    /\ agent.message_client_ = "disconnected"

(***************************************************************************)
(* C15.  As claimed: when the message WebSocket closes or fails while the  *)
(* agent is Online, the agent's state changes to Error and the transition  *)
(* Online -> Error is delivered to the state-change handler.               *)
(***************************************************************************)
C15_SocketDownTripsError ==
    [][(agent.state_ = "Online" /\ agent.message_client_ = "connected"
        /\ agent'.message_client_ = "disconnected") =>
            /\ agent'.state_ = "Error"
            /\ reported' = <<"Online", "Error">>]_vars

(***************************************************************************)
(* C16.  As claimed: after DeleteAID or Shutdown has dropped the agent,    *)
(* IsValid and IsOnline return false and GetState returns Error, and       *)
(* Online returns (with AID_INVALID).                                      *)
(***************************************************************************)
C16_InvalidFromThenOn ==
    /\ query.freed => (~query.valid /\ ~query.online /\ query.state = "Error")
    /\ online.pc # "crashed"

(***************************************************************************)
(* C17.  In the member list of every session each AID appears at most      *)
(* once, whatever CreateSession, InviteAgent, JoinSession, LeaveSession    *)
(* and EjectAgent calls ran and however they interleaved; CreateSession    *)
(* with a list that repeats an AID records it once.                        *)
(***************************************************************************)
C17_EachAidOnce ==
    \A s \in SessionIds : \A i, j \in 1..Len(sessions_[s].members_) :
        sessions_[s].members_[i].agent_id = sessions_[s].members_[j].agent_id
            => i = j

\* the member list of s holds the agent itself with role owner
HasOwner(s) ==
    \E i \in 1..Len(sessions_[s].members_) :
        sessions_[s].members_[i] = SessionMember(TheAid, "owner")

(***************************************************************************)
(* C18.  As claimed: the creating agent, once in the member list of its    *)
(* session as owner, is there in every later state, whatever InviteAgent,  *)
(* LeaveSession, EjectAgent or CloseSession calls follow.                  *)
(***************************************************************************)
C18_OwnerStays ==
    [][\A s \in SessionIds : HasOwner(s) => HasOwner(s)']_vars

(***************************************************************************)
(* C18, as the code has it: the owner entry of a session goes away only in *)
(* a LeaveSession on that session or an EjectAgent on it that names the    *)
(* creating agent itself; InviteAgent, JoinSession, CloseSession, the      *)
(* EjectAgent of another agent and the invite loop of CreateSession keep   *)
(* it.                                                                     *)
(***************************************************************************)
C18_OwnerGoesByLeaveOrEject ==
    [][\A s \in SessionIds :
          HasOwner(s) /\ ~HasOwner(s)'
              => LeaveSession(s) \/ EjectAgent(s, TheAid)]_vars

\* the session is closed, another agent was just ejected from it, and the
\* owner is still in it
C18_Witness ==
    \E s \in SessionIds, a \in OtherAids :
        /\ lastCall = MethodReturned("EjectAgent", s, a, "Ok")
        /\ sessions_[s].closed_
        /\ HasOwner(s)
        /\ Len(sessions_[s].members_) > 1

\* how many invite_agent_req envelopes among what a CreateSession sent
\* went to aid
InvitesTo(sent, aid) ==
    Cardinality({i \in 1..Len(sent) :
                    sent[i].cmd = "invite_agent_req" /\ sent[i].target = aid})

(***************************************************************************)
(* C19.  When create_session_ack has arrived, CreateSession stores the     *)
(* session under the id of the ack with the caller as owner; when it       *)
(* returns, every send having succeeded, it has sent after the ack, and    *)
(* not before it, exactly one invite_agent_req to each distinct member of  *)
(* its list that is not the caller and none to anyone else, each with the  *)
(* caller as sender.                                                       *)
(***************************************************************************)
C19_OneInvitePerMember ==
    [][/\ create.pc = "idle" /\ create'.pc = "invite"
          => /\ \A s \in SessionIds :
                   create'.session_id = s
                       => HasOwner(s)' /\ ~sessions_[s].exists
             /\ create'.wire = <<[cmd |-> "create_session_req"],
                                 [cmd |-> "create_session_ack"]>>
       /\ create.pc = "invite" /\ create'.pc = "idle" /\ create.all_sent
          => /\ SubSeq(create.wire, 1, 2) = <<[cmd |-> "create_session_req"],
                                              [cmd |-> "create_session_ack"]>>
             /\ \A i \in 3..Len(create.wire) :
                   create.wire[i] = InviteAgentReq(create.session_id,
                                                   create.wire[i].target)
             /\ \A a \in Aids :
                   InvitesTo(create.wire, a) =
                       IF a # TheAid /\ \E i \in 1..Len(create.members) :
                                            create.members[i] = a
                       THEN 1 ELSE 0]_vars

\* a step that is a call of one of the six methods with session id s
LookupCall(s) ==
    \/ \E a \in Aids : InviteAgent(s, a)
    \/ JoinSession(s)
    \/ LeaveSession(s)
    \/ CloseSession(s)
    \/ \E a \in Aids : EjectAgent(s, a)
    \/ GetMemberList(s)

(***************************************************************************)
(* C20.  InviteAgent, JoinSession, LeaveSession, CloseSession, EjectAgent  *)
(* and GetMemberList called with a session id that is not in the session   *)
(* map return SESSION_NOT_FOUND and leave the map and every member list as *)
(* they were: the failed call makes no session.                            *)
(***************************************************************************)
C20_UnknownSessionNotFound ==
    [][\A s \in SessionIds :
          ~sessions_[s].exists /\ LookupCall(s)
              => /\ lastCall'.result = "SESSION_NOT_FOUND"
                 /\ sessions_' = sessions_]_vars

\* a step that is a membership call on session s
MembershipCall(s) ==
    \/ \E a \in Aids : InviteAgent(s, a)
    \/ JoinSession(s)
    \/ LeaveSession(s)
    \/ \E a \in Aids : EjectAgent(s, a)

(***************************************************************************)
(* C21.  Once CloseSession has succeeded on a session it stays closed:     *)
(* every later SendMessage and CreateStream on it fails with               *)
(* SESSION_CLOSED, and every later InviteAgent, JoinSession, LeaveSession  *)
(* and EjectAgent on it returns an error and leaves its member list as it  *)
(* was.                                                                    *)
(***************************************************************************)
C21_ClosedSessionRefuses ==
    [][\A s \in SessionIds :
          sessions_[s].exists /\ sessions_[s].closed_
              => /\ sessions_[s].closed_'
                 /\ (\E r \in SendResults :
                        \/ SessionSend(s, "SendMessage", r)
                        \/ SessionSend(s, "CreateStream", r))
                        => lastCall'.result = "SESSION_CLOSED"
                 /\ MembershipCall(s)
                        => /\ lastCall'.result # "Ok"
                           /\ sessions_[s].members_' = sessions_[s].members_]_vars

(***************************************************************************)
(* C22.  An inbound session_message (one that carries a message) goes into *)
(* the group client if and only if there is a group client and the frame's *)
(* sender is the group target AID; a frame that went into the group client *)
(* is not URL-decoded and not delivered to the session message handler;    *)
(* a frame of another sender never goes into the group client.             *)
(***************************************************************************)
C22_GroupFramesByTargetOnly ==
    routed.cmd = "session_message"
        => /\ routed.message \notin {"missing", "empty"}
                => (routed.fed <=> routed.group_client_
                                   /\ routed.sender = GroupTarget)
           /\ routed.fed => ~routed.decoded /\ ~routed.delivered
           /\ routed.sender # GroupTarget => ~routed.fed

\* how often the last HandleIncoming called the method of the event handler
Invocations(method) ==
    Cardinality({i \in 1..Len(calls.methods) : calls.methods[i].method = method})

(***************************************************************************)
(* C23.  For an inbound message_push payload HandleIncoming calls          *)
(* OnGroupMessage of the registered handler exactly once; for a            *)
(* message_batch_push it calls OnGroupMessageBatch exactly once; for a     *)
(* payload that is no response, has no event and neither action it calls   *)
(* no method of the handler.                                               *)
(***************************************************************************)
C23_OneCallPerPush ==
    ~calls.answered /\ calls.event = ""
        => /\ calls.action = "message_push" /\ calls.data /\ calls.handler
                => Invocations("OnGroupMessage") = 1
           /\ calls.action = "message_batch_push" /\ calls.data /\ calls.handler
                => Invocations("OnGroupMessageBatch") = 1
           /\ calls.action = "" => calls.methods = <<>>

(***************************************************************************)
(* C30.  HandleIncoming calls no method of the event handler while it      *)
(* holds pending_mutex_ (so that a handler that calls SendRequest or Close *)
(* on the same client cannot block on that mutex).                         *)
(***************************************************************************)
C30_NoCallbackUnderPendingMutex ==
    \A i \in 1..Len(calls.methods) : ~calls.methods[i].locked


\* C24: once a sign-in that a 401 response asked for has been stored, every
\* heartbeat request the send loop sends goes to the address of that sign-in
\* and carries its cookie, and 401 is never the heartbeat interval
C24_BeatsCarryNewSignIn ==
    /\ [][(sendLoop.pc = "send" /\ sendLoop'.pc = "top" /\ sign_cookie_ > 1)
            => (request'.ip = server_ip_ /\ request'.cookie = sign_cookie_)]_vars
    /\ [](heartbeat_interval_ms_ # ReauthCode)


\* a string of characters that are no separators
Plain(s) == \A i \in 1..Len(s) : s[i] = "a"

\* the first path segment: the characters before the first "/", "?" or "#"
RECURSIVE FirstSegment(_)
FirstSegment(path) ==
    IF path = <<>> \/ path[1] \in {"/", "?", "#"} THEN <<>>
    ELSE <<path[1]>> \o FirstSegment(Tail(path))

\* "://" stands in the URL after its first i characters
SeparatorAt(url, i) ==
    i + 3 <= Len(url) /\ SubSeq(url, i + 1, i + 3) = <<":", "/", "/">>

\* the URL is scheme://host/path with the host ending at position j
UrlForm(url, i, j) ==
    /\ i >= 1 /\ Plain(SubSeq(url, 1, i))
    /\ SeparatorAt(url, i)
    /\ j >= i + 4 /\ j < Len(url)
    /\ Plain(SubSeq(url, i + 4, j))
    /\ url[j + 1] = "/"

\* C25: a call of ParseGroupUrl on scheme://host/path returns the host as
\* target_aid and the first path segment as group_id, query, fragment and
\* trailing slashes stripped; it fails on a URL without "://", with an empty
\* host, without a path or with a path of slashes only
C25_HostAndFirstSegment ==
    parsed # NotParsed =>
        /\ \A i, j \in 1..Len(group_url) :
            UrlForm(group_url, i, j) =>
                LET host == SubSeq(group_url, i + 4, j)
                    path == SubSeq(group_url, j + 2, Len(group_url))
                IN IF FirstSegment(path) # <<>>
                   THEN parsed = [kind |-> "return", target_aid |-> host,
                                  group_id |-> FirstSegment(path)]
                   ELSE (\A k \in 1..Len(path) : path[k] = "/") => parsed = UrlError
        /\ Find(group_url, <<":", "/", "/">>) = npos => parsed = UrlError
        /\ \A i \in 0..Len(group_url) :
            (/\ Plain(SubSeq(group_url, 1, i))
             /\ SeparatorAt(group_url, i)
             /\ \/ Len(group_url) = i + 3
                \/ group_url[i + 4] = "/"
                \/ Plain(SubSeq(group_url, i + 4, Len(group_url))))
            => parsed = UrlError


\* the thread `c` is about to write reconnect_thread_ (join it or move a new
\* thread into it)
WritesReconnectThread(c) == starter[c] \in {"join", "assign"}

\* the thread `c` is about to read or write reconnect_thread_
TouchesReconnectThread(c) == starter[c] \in {"check", "join", "assign"}

\* C26: no two threads are at reconnect_thread_ together with one of them
\* joining or replacing it, no thread joins a thread another one joined, and
\* no loop is started while the thread of an earlier one is still in
\* reconnect_thread_
C26_OneThreadAtReconnectThread ==
    /\ \A a, b \in Starters :
        a # b => ~(WritesReconnectThread(a) /\ TouchesReconnectThread(b))
    /\ \A c \in Starters : starter[c] \notin {"threw", "terminate"}


\* the caller `c` of SendRequest is the owner of an entry of pending_reqs_
HasPendingEntry(c) == \E id \in ReqIds : pending_reqs_[id] = c

\* the caller `a` of SendAndWaitAck is the owner of an entry of ack_waiters_
HasAckWaiter(a) == \E id \in AckIds : ack_waiters_[id] = a

CallsSendFunc(c) == req[c].pc = "send" /\ req'[c].pc # "send"

\* C28: once Close of the group client has returned, no caller of
\* SendRequest calls send_func
C28_NoSendFuncAfterClose ==
    [][\A c \in Callers : CallsSendFunc(c) => closePc # "done"]_vars


C31_DisconnectedAfterDisconnect ==
    disconnectPc = "done"
        => /\ state_ = "Disconnected"
           /\ ~reconnect_loop_running_
           /\ reconnect_thread_ = "none"


\* no thread is inside Online or Offline, and the agent has not been deleted
OnlineOfflineReturned ==
    /\ online.pc \in {"idle", "done"}
    /\ \A t \in OfflineThreads : offline[t].pc \in {"idle", "done"}
    /\ owner.pc = "idle"
    /\ ~agent.freed /\ ~agent.invalidated_

\* C32: once the calls of Online and Offline have returned, an agent that is
\* Online has its auth, heartbeat and message clients, and an agent that is
\* Offline has none of them and no signature
C32_ConsistentAtRest ==
    OnlineOfflineReturned =>
        /\ agent.state_ = "Online" =>
            /\ agent.auth_client_ # "none"
            /\ agent.heartbeat_client_ # "none"
            /\ agent.message_client_ # "none"
        /\ agent.state_ = "Offline" =>
            /\ agent.auth_client_ = "none"
            /\ agent.heartbeat_client_ = "none"
            /\ agent.message_client_ = "none"
            /\ ~agent.signature_


\* the thread in Online holds the agent's mutex and waits for the owner's
OnlineWaitsForOwner ==
    /\ mutex_.AgentID = "online" /\ ~agent.freed
    /\ OnlineNeedsOwner
    /\ mutex_.AgentCP = "owner"

\* the thread in DeleteAID or Shutdown holds the owner's mutex and waits
\* for the agent's, in Offline or at line 617 of Invalidate
OwnerWaitsForAgent ==
    /\ mutex_.AgentCP = "owner"
    /\ \/ offline["owner"].pc = "begin"
       \/ owner.pc = "Invalidate" /\ offline["owner"].pc = "done"
    /\ mutex_.AgentID = "online"

\* C33: Online and a concurrent DeleteAID or Shutdown never wait for each
\* other's mutex, each holding the one the other wants
C33_NoDeadlock == ~(OnlineWaitsForOwner /\ OwnerWaitsForAgent)


\* the thread in CreateAID is inside http.PostJson
CreatorSends == creating.pc = "PostJson"

\* the thread in DeleteAID or Shutdown is inside AuthClient::SignOut, which
\* posts the sign-out request
OwnerSends ==
    /\ offline["owner"].pc = "reset"
    /\ TeardownOrder[offline["owner"].i] = "auth_client_"

\* C34: no thread holds the mutex of the AIDs map while it is inside a
\* blocking network send
C34_NoMapMutexAcrossSend ==
    /\ CreatorSends => mutex_.AgentCP # "creator"
    /\ OwnerSends => mutex_.AgentCP # "owner"


\* the request of an ack ended with a response of code 0
AckSucceeded(c) ==
    req[c].outcome.kind = "return" /\ req[c].outcome.response.code = 0

\* C35: the step of AckMessages or AckEvents that follows Check writes the
\* store only when the request returned code 0; after a timeout, a
\* cancellation, a failed send or a non-zero code the call throws and the
\* store is as it was
C35_StoreWrittenOnlyAfterCodeZero ==
    [][\A c \in Callers :
        (req[c].pc = "checked" /\ req'[c].pc = "acked" /\ ~AckSucceeded(c))
            => /\ req'[c].outcome.kind = "throw"
               /\ UNCHANGED <<cursors_, dirty_, disk>>]_vars

\* one ack has thrown and left the store alone, another has returned and
\* its id is in the store
C35_Witness ==
    /\ cursor_store_
    /\ \E c, d \in Callers :
        /\ req[c].pc = "acked" /\ req[c].outcome.kind = "throw"
        /\ req[d].pc = "acked" /\ AckSucceeded(d)
    /\ LoadCursor(SyncGroupId) # <<0, 0>>


\* a pull has been answered and the loop it belongs to goes on
LoopContinues ==
    /\ pulls' = pulls + 1
    /\ \/ sync.pc = "pull_messages" /\ sync'.pc \in {"pull_messages", "ack_messages"}
       \/ sync.pc = "pull_events" /\ sync'.pc \in {"pull_events", "ack_events"}
    /\ sync'.has_more \/ sync'.pc = sync.pc

\* the position the next pull of the loop will be sent with
NextAfter(s) == IF s.pc \in {"ack_messages", "ack_events"} THEN s.last_id ELSE s.after

\* C36: every iteration of SyncMessages and of SyncEventsLoop that goes on
\* to another pull has moved `after` forward, also on an empty batch with
\* has_more = true
C36_ContinuingPullAdvances ==
    [][LoopContinues => NextAfter(sync') > sync.after]_vars


RECURSIVE NthInterval(_)
\* base * k^n capped at max, the cap applied at every step
NthInterval(n) ==
    IF n = 0 THEN BaseInterval
    ELSE Min(NthInterval(n - 1) * BackoffFactor, MaxInterval)

\* the reconnect loop begins a sleep (lines 258-259)
SleepBegins == reconnect_thread_ = "enter" /\ reconnect_thread_' = "sleep"

\* C37: a sleep of the reconnect loop that follows n attempts made since the
\* last successful connect lasts base * k^n capped at max; the first sleep
\* after a successful connect lasts base
C37_SleepsAreBackoffSequence ==
    [][SleepBegins => current_reconnect_interval_ = NthInterval(attempts)]_vars


\* this step is the one in which CreateSession puts its session into the
\* map under id
StoredByCreate(id) ==
    /\ ~sessions_[id].exists /\ sessions_'[id].exists
    /\ create.pc = "idle"
    /\ \/ create'.pc = "invite" /\ create'.session_id = id
       \/ lastCall' = MethodReturned("CreateSession", id, "", "Ok")

\* C38 as claimed: CreateSession stores a session under a locally generated
\* id only when the WebSocket is not connected at the time of the call
C38_LocalIdOnlyWhenDisconnected ==
    [][\A id \in LocalIds : StoredByCreate(id) => ~WsConnected]_vars

\* C38: the session is stored under the server's id exactly when the
\* WebSocket is connected and create_session_ack came with an id (the
\* invites follow); in every other case, a connected socket without such an
\* ack included, it is stored under a generated id and CreateSession
\* returns Ok
C38_ServerIdIffAcked ==
    [][\A id \in SessionIds :
        StoredByCreate(id) =>
            IF WsConnected /\ create'.pc = "invite"
            THEN id \in ServerIds
            ELSE /\ id \in LocalIds
                 /\ lastCall' = MethodReturned("CreateSession", id, "", "Ok")]_vars

\* a session made by CreateSession under a generated id, and one under the
\* server's id, the socket connected
C38_Witness ==
    /\ WsConnected
    /\ \E id \in LocalIds :
        /\ sessions_[id].exists
        /\ lastCall = MethodReturned("CreateSession", id, "", "Ok")
    /\ \E id \in ServerIds : sessions_[id].exists

\* the receive loop has finished with an invite request that it took while
\* a callback was registered
InviteHandled ==
    /\ receiveLoop = "recv"
    /\ invite.invite_req # NoInvite
    /\ invite.registered

\* C39: for each invite request the receive loop takes, the registered
\* callback is called exactly once and after it exactly one invite response
\* is sent, which carries the inviter_agent_id and the session_id of that
\* request.
C39_InviteCalledOnceAnsweredOnce ==
    InviteHandled =>
        /\ invite.called = 1
        /\ invite.sent = 1
        /\ invite.resp.inviter_agent_id = invite.invite_req.inviter_agent_id
        /\ invite.resp.session_id = invite.invite_req.session_id

\* the requests a call may have sent: each step once and once more for
\* every retry, and a pause before every retry
SignInBounded ==
    /\ signIn.retry <= signIn.max_retries
    /\ signIn.sleeps = signIn.retry
    /\ signIn.challenges = signIn.retry + (IF signIn.pc = "challenge" THEN 0 ELSE 1)
    /\ signIn.proofs <= signIn.challenges

\* a failure of the protocol has ended the call with false
SignInAborted ==
    signIn.failure = "protocol" => signIn.pc = "returned" /\ ~signIn.result

\* C40: AuthClient::SignIn always terminates; on a transport failure each
\* of the two steps is tried again at most max_retries times, with a pause
\* before each new attempt; on a protocol failure (unparseable response,
\* key that cannot be loaded, neither nonce nor signature) it returns
\* failure at once and sends no further request.
C40_SignInTerminates ==
    /\ [](signIn.pc # "idle" => SignInBounded /\ SignInAborted)
    /\ (signIn.pc # "idle") ~> (signIn.pc = "returned")

=============================================================================
